---- MODULE Spec2Model ----
(***************************************************************************)
(* The inventory ledger of Tasto_backend: purchase lots, usage events and  *)
(* spoilage events (src/src/db/schema.ts), the stock calculator and the    *)
(* write operations of InventoryService (src/unnamed/part_005), and the    *)
(* FIFO recipe completion of RecipeService                                 *)
(* (src/src/services/recipe.service.ts).                                   *)
(*                                                                         *)
(* Quantities.  A JavaScript number is modelled as an integer count of     *)
(* ticks, Ticks ticks to 0.01, so that a request can carry more decimals   *)
(* than the numeric(10,2) columns keep.  A decimal string is modelled by   *)
(* the value it denotes.  Arithmetic on numbers is exact.                  *)
(***************************************************************************)
EXTENDS Integers, Sequences, FiniteSets, Bags, TLC

\* ------------------------------------------------------------------ bounds
\* Resolution of request quantities: ticks per 0.01.
Ticks == 2
\* Purchase lots the ledger may hold.
MaxLots == 2
\* Usage plus spoilage rows the ledger may hold.
MaxEvents == 3

\* --------------------------------------------------------- reference data
\* Rows of the tenant and directory tables.  Their CRUD is outside the
\* ledger; the rows are fixed.
users == {"u1", "u2"}

ingredients ==
    { [id |-> "flour", userId |-> "u1"],
      [id |-> "sugar", userId |-> "u1"],
      [id |-> "salt",  userId |-> "u2"] }

\* ingredients.restock_threshold, a numeric(10,2) value or null.
NullThreshold == -1
restockThreshold ==
    ("flour" :> 3 * Ticks) @@ ("sugar" :> NullThreshold) @@ ("salt" :> 2 * Ticks)

storageLocations ==
    { [id |-> "pantry", userId |-> "u1"],
      [id |-> "fridge", userId |-> "u1"],
      [id |-> "cellar", userId |-> "u2"] }

suppliers ==
    { [id |-> "acme",   userId |-> "u1"],
      [id |-> "globex", userId |-> "u2"] }

recipes ==
    { [id |-> "bread", userId |-> "u1", serves |-> 4],
      [id |-> "syrup", userId |-> "u1", serves |-> 2],
      [id |-> "brine", userId |-> "u2", serves |-> 2] }

\* recipe_ingredients rows in the order the query returns them; quantity is
\* a numeric(10,2) value.
recipeIngredients ==
    << [recipeId |-> "bread", ingredientId |-> "flour", quantity |-> 7 * Ticks],
       [recipeId |-> "bread", ingredientId |-> "sugar", quantity |-> 2 * Ticks],
       [recipeId |-> "brine", ingredientId |-> "salt",  quantity |-> 1 * Ticks],
       [recipeId |-> "syrup", ingredientId |-> "sugar", quantity |-> 3 * Ticks] >>

\* menu_plans rows, and menu_items rows in the order of their "order" column;
\* servings is a numeric(10,2) value.
menuPlans ==
    { [id |-> "brunch", userId |-> "u1"],
      [id |-> "fast",   userId |-> "u1"],
      [id |-> "lunch",  userId |-> "u2"] }

menuItems ==
    << [menuPlanId |-> "brunch", recipeId |-> "bread", servings |-> 8],
       [menuPlanId |-> "brunch", recipeId |-> "syrup", servings |-> 2],
       [menuPlanId |-> "lunch",  recipeId |-> "brine", servings |-> 0] >>

\* ------------------------------------------------------------------ state
VARIABLES
    stock,      \* ingredient_stock: the lots, as a function of their ids
    usage,      \* usage_history: bag of [ingredientStockId, quantityUsed]
    spoilage,   \* spoilage_records: bag of [ingredientStockId, quantity]
    calls,      \* overlapping recordUsage / recordSpoilage calls in progress
    dailyInventorySnapshots,    \* daily_inventory_snapshots: set of rows
    ingredientAnalytics,        \* ingredient_analytics: set of rows
    loop,       \* callbacks registered with setImmediate, waiting or running
    requests,   \* handlers of the GET routes of the analytics in progress
    costs,      \* the last answer of the cost calculations
    console,    \* the messages console.error has printed
    now         \* the clock, in hours

vars == <<stock, usage, spoilage, calls, dailyInventorySnapshots, ingredientAnalytics,
          loop, requests, costs, console, now>>
ledger == <<stock, usage, spoilage>>
\* The cached aggregates and what recomputes and reads them.  The
\* specifications of the ledger alone leave them out: no ledger operation
\* reads them.
derived ==
    <<dailyInventorySnapshots, ingredientAnalytics, loop, requests, costs, console, now>>

\* ---------------------------------------------------------------- numbers
Max(a, b) == IF a >= b THEN a ELSE b
Min(a, b) == IF a <= b THEN a ELSE b

\* A value stored in a numeric(10,2) column: PostgreSQL rounds to the
\* column's scale, ties away from zero (values here are >= 0).
numeric2(x) == ((2 * x + Ticks) \div (2 * Ticks)) * Ticks

\* Number.prototype.toFixed(2), for x >= 0.
toFixed2(x) == ((2 * x + Ticks) \div (2 * Ticks)) * Ticks

\* parseFloat of a decimal string.
parseFloat(s) == s

\* ----------------------------------------------------------- ledger sums
StockIds == DOMAIN stock

RECURSIVE SumUsageRows(_, _)
SumUsageRows(rows, bag) ==
    IF rows = {} THEN 0
    ELSE LET r == CHOOSE x \in rows : TRUE
         IN  r.quantityUsed * bag[r] + SumUsageRows(rows \ {r}, bag)

RECURSIVE SumSpoilageRows(_, _)
SumSpoilageRows(rows, bag) ==
    IF rows = {} THEN 0
    ELSE LET r == CHOOSE x \in rows : TRUE
         IN  r.quantity * bag[r] + SumSpoilageRows(rows \ {r}, bag)

\* COALESCE(SUM(usage_history.quantity_used), 0) of one lot of the tenant.
TotalUsed(stockId, userId) ==
    SumUsageRows({r \in BagToSet(usage) :
                     /\ r.ingredientStockId = stockId
                     /\ stockId \in StockIds
                     /\ stock[stockId].userId = userId}, usage)

\* COALESCE(SUM(spoilage_records.quantity), 0) of one lot of the tenant.
TotalSpoiled(stockId, userId) ==
    SumSpoilageRows({r \in BagToSet(spoilage) :
                        /\ r.ingredientStockId = stockId
                        /\ stockId \in StockIds
                        /\ stock[stockId].userId = userId}, spoilage)

\* A calculator that looks the lot up by its id alone, to try the
\* properties against.
calculateRemainingQuantityAnyTenant(stockId, userId) ==
    IF stockId \notin StockIds THEN 0
    ELSE toFixed2(Max(0, parseFloat(stock[stockId].quantity)
                            - TotalUsed(stockId, stock[stockId].userId)
                            - TotalSpoiled(stockId, stock[stockId].userId)))

\* A calculator without the floor at zero, to try the properties against.
calculateRemainingQuantityNoFloor(stockId, userId) ==
    IF ~(stockId \in StockIds /\ stock[stockId].userId = userId) THEN 0
    ELSE toFixed2(parseFloat(stock[stockId].quantity)
                  - TotalUsed(stockId, userId) - TotalSpoiled(stockId, userId))

\* InventoryService.calculateRemainingQuantity
calculateRemainingQuantity(stockId, userId) ==
    IF ~(stockId \in StockIds /\ stock[stockId].userId = userId) THEN 0
    ELSE LET originalQuantity == parseFloat(stock[stockId].quantity)
             totalUsed == parseFloat(TotalUsed(stockId, userId))
             totalSpoiled == parseFloat(TotalSpoiled(stockId, userId))
             remaining == originalQuantity - totalUsed - totalSpoiled
         IN  toFixed2(Max(0, remaining))

EventCount == BagCardinality(usage) + BagCardinality(spoilage)

\* ----------------------------------------------------------------- inputs
IngredientIds == {i.id : i \in ingredients}
\* request quantities: some with more decimals than the columns keep
UsageQty == {1, 5 * Ticks}

PurchaseInput(ingredientId, storageLocationId, quantity, purchaseDate, purchasePrice, supplierId) ==
    [ingredientId |-> ingredientId, storageLocationId |-> storageLocationId,
     quantity |-> quantity, purchaseDate |-> purchaseDate,
     purchasePrice |-> purchasePrice, supplierId |-> supplierId]

\* Purchase requests: flour lots of two dates and two places, two of them of
\* one date, the later lot at a higher price per unit (every price is a
\* whole multiple of the quantity the lot is stored with); a second
\* ingredient, in a quantity with three decimals; the other tenant's
\* ingredient; a place and a supplier of the wrong tenant.
PurchaseRequests ==
    << PurchaseInput("flour", "pantry", 5 * Ticks, 1, 2 * numeric2(5 * Ticks),
                     "acme"),
       PurchaseInput("flour", "fridge", 5 * Ticks, 3, 3 * numeric2(5 * Ticks),
                     "acme"),
       PurchaseInput("flour", "fridge", 5 * Ticks, 1, 2 * numeric2(5 * Ticks),
                     "acme"),
       PurchaseInput("sugar", "pantry", 2 * Ticks + 1, 1, 2 * numeric2(2 * Ticks + 1),
                     "acme"),
       PurchaseInput("salt", "cellar", 5 * Ticks, 1, 2 * numeric2(5 * Ticks),
                     "globex"),
       PurchaseInput("flour", "cellar", 5 * Ticks, 1, 2 * numeric2(5 * Ticks),
                     "acme"),
       PurchaseInput("flour", "pantry", 5 * Ticks, 1, 2 * numeric2(5 * Ticks),
                     "globex") >>
\* Purchase requests that name an ingredient, a place or a supplier that no
\* tenant has.
UnknownPurchaseRequests ==
    << PurchaseInput("pepper", "pantry", 5 * Ticks, 1, 2 * numeric2(5 * Ticks),
                     "acme"),
       PurchaseInput("flour", "attic", 5 * Ticks, 1, 2 * numeric2(5 * Ticks), "acme"),
       PurchaseInput("flour", "pantry", 5 * Ticks, 1, 2 * numeric2(5 * Ticks),
                     "nobody") >>
PurchaseInputs ==
    {PurchaseRequests[i] : i \in 1..Len(PurchaseRequests)}
        \cup {UnknownPurchaseRequests[i] : i \in 1..Len(UnknownPurchaseRequests)}

\* The id the database gives the lot of a purchase.  It is a fresh random
\* UUID; here each request is made at most once and its lot is named by the
\* request's place in the list.
LotIdOf(data) ==
    CHOOSE i \in 1..Len(PurchaseRequests \o UnknownPurchaseRequests) :
        (PurchaseRequests \o UnknownPurchaseRequests)[i] = data

\* lot ids a request may name; those of the last requests never exist
RequestStockIds == 1..Len(PurchaseRequests)

UsageInputs == [ingredientStockId : RequestStockIds, quantityUsed : UsageQty]
SpoilageInputs == [ingredientStockId : RequestStockIds, quantity : UsageQty]

\* ------------------------------------------------ InventoryService writes
\* A purchase validation that looks only at the ingredient, to try the
\* properties against.
recordPurchaseResultIngredientOnly(data, userId) ==
    IF ~\E i \in ingredients : i.id = data.ingredientId /\ i.userId = userId
    THEN "Ingredient not found"
    ELSE "ok"

\* What recordPurchase throws, or "ok".
recordPurchaseResult(data, userId) ==
    IF ~\E i \in ingredients : i.id = data.ingredientId /\ i.userId = userId
    THEN "Ingredient not found"
    ELSE IF ~\E l \in storageLocations :
                l.id = data.storageLocationId /\ l.userId = userId
    THEN "Storage location not found"
    ELSE IF ~\E s \in suppliers : s.id = data.supplierId /\ s.userId = userId
    THEN "Supplier not found"
    ELSE "ok"

\* The ingredient_stock row recordPurchase inserts.
newStock(data, userId) ==
    [id |-> LotIdOf(data),
     userId |-> userId,
     ingredientId |-> data.ingredientId,
     storageLocationId |-> data.storageLocationId,
     quantity |-> numeric2(data.quantity),
     purchaseDate |-> data.purchaseDate,
     purchasePrice |-> numeric2(data.purchasePrice),
     supplierId |-> data.supplierId]

\* InventoryService.recordPurchase
recordPurchase(data, userId) ==
    /\ UNCHANGED <<usage, spoilage, calls>>
    /\ IF recordPurchaseResult(data, userId) = "ok"
       THEN /\ Cardinality(StockIds) < MaxLots
            /\ LotIdOf(data) \notin StockIds
            /\ stock' = stock @@ (LotIdOf(data) :> newStock(data, userId))
       ELSE UNCHANGED stock

\* Faulty sufficiency checks, to try the properties against: one that never
\* refuses, one that also refuses a request for exactly the remainder.
InsufficientNever(remaining, quantity) == FALSE
InsufficientOrEqual(remaining, quantity) == parseFloat(remaining) <= quantity

\* The sufficiency check of recordUsage, recordSpoilage and
\* batchRecordUsage: TRUE when the request is refused.
Insufficient(remaining, quantity) == parseFloat(remaining) < quantity

\* The lookup of the lot that opens recordUsage and recordSpoilage.
StockFound(stockId, userId) ==
    stockId \in StockIds /\ stock[stockId].userId = userId

\* What recordUsage throws, or "ok", when no other call overlaps it.
recordUsageResult(data, userId) ==
    IF ~StockFound(data.ingredientStockId, userId)
    THEN "Ingredient stock not found"
    ELSE IF Insufficient(calculateRemainingQuantity(data.ingredientStockId, userId),
                         data.quantityUsed)
    THEN "Insufficient stock available"
    ELSE "ok"

\* The usage_history row inserted for a request.
newUsage(stockId, quantityUsed) ==
    [ingredientStockId |-> stockId, quantityUsed |-> numeric2(quantityUsed)]

\* A recordUsage that keeps the remaining quantity in the lot's row: it
\* inserts the usage row and takes the quantity used off the lot.
recordUsageDecrementing(data, userId) ==
    /\ UNCHANGED <<spoilage, calls>>
    /\ IF recordUsageResult(data, userId) = "ok"
       THEN /\ EventCount < MaxEvents
            /\ usage' = usage (+) SetToBag({newUsage(data.ingredientStockId,
                                                     data.quantityUsed)})
            /\ stock' = [stock EXCEPT ![data.ingredientStockId].quantity =
                                           @ - data.quantityUsed]
       ELSE UNCHANGED <<stock, usage>>

\* InventoryService.recordUsage, run without any overlapping call
recordUsage(data, userId) ==
    /\ UNCHANGED <<stock, spoilage, calls>>
    /\ IF recordUsageResult(data, userId) = "ok"
       THEN /\ EventCount < MaxEvents
            /\ usage' = usage (+) SetToBag({newUsage(data.ingredientStockId,
                                                     data.quantityUsed)})
       ELSE UNCHANGED usage

\* What recordSpoilage throws, or "ok", when no other call overlaps it.
recordSpoilageResult(data, userId) ==
    IF ~StockFound(data.ingredientStockId, userId)
    THEN "Ingredient stock not found"
    ELSE IF Insufficient(calculateRemainingQuantity(data.ingredientStockId, userId),
                         data.quantity)
    THEN "Insufficient stock available"
    ELSE "ok"

\* The spoilage_records row inserted for a request.
newSpoilage(stockId, quantity) ==
    [ingredientStockId |-> stockId, quantity |-> numeric2(quantity)]

\* InventoryService.recordSpoilage, run without any overlapping call
recordSpoilage(data, userId) ==
    /\ UNCHANGED <<stock, usage, calls>>
    /\ IF recordSpoilageResult(data, userId) = "ok"
       THEN /\ EventCount < MaxEvents
            /\ spoilage' = spoilage (+) SetToBag({newSpoilage(data.ingredientStockId,
                                                              data.quantity)})
       ELSE UNCHANGED spoilage

\* ----------------------------------------------------- batch stock reads
\* A batch calculator that forgets the tenant when it selects the lots, to
\* try the properties against.
batchCalculateRemainingQuantitiesAnyTenant(stockIds, userId) ==
    [id \in {x \in stockIds : x \in StockIds} |->
        toFixed2(Max(0, parseFloat(stock[id].quantity)
                           - parseFloat(TotalUsed(id, stock[id].userId))
                           - parseFloat(TotalSpoiled(id, stock[id].userId))))]

\* InventoryService.batchCalculateRemainingQuantities: the Map it returns,
\* as a function on the requested lots the tenant owns.
batchCalculateRemainingQuantities(stockIds, userId) ==
    [id \in {x \in stockIds : StockFound(x, userId)} |->
        LET quantity == parseFloat(stock[id].quantity)
            used == parseFloat(TotalUsed(id, userId))
            spoiled == parseFloat(TotalSpoiled(id, userId))
            remaining == Max(0, quantity - used - spoiled)
        IN  toFixed2(remaining)]

\* Map.get(key) || fallback
MapGet(map, key, fallback) == IF key \in DOMAIN map THEN map[key] ELSE fallback

\* The orders in which the database may return the tenant's lots of the
\* given ingredients under ORDER BY purchase_date DESC: lots of one date
\* come in any order.
StockOrders(ingredientIds, userId) ==
    LET matching == {id \in StockIds : /\ stock[id].ingredientId \in ingredientIds
                                       /\ stock[id].userId = userId}
        n == Cardinality(matching)
    IN  {order \in [1..n -> matching] :
            /\ \A i, j \in 1..n : i < j => order[i] # order[j]
            /\ \A i, j \in 1..n :
                  i < j => stock[order[i]].purchaseDate >= stock[order[j]].purchaseDate}

\* InventoryService.batchGetIngredientStock: per ingredient the lots in the
\* order the query returned them, each with its remaining quantity.
batchGetIngredientStock(ingredientIds, userId, order) ==
    LET remainingQuantities ==
            batchCalculateRemainingQuantities({order[i] : i \in 1..Len(order)}, userId)
        Detail(id) == [id |-> id,
                       ingredientId |-> stock[id].ingredientId,
                       quantity |-> stock[id].quantity,
                       remainingQuantity |-> MapGet(remainingQuantities, id, 0),
                       purchaseDate |-> stock[id].purchaseDate]
        entries == [i \in 1..Len(order) |-> Detail(order[i])]
    IN  [ing \in {entries[i].ingredientId : i \in 1..Len(entries)} |->
            LET OfIngredient(e) == e.ingredientId = ing
            IN  SelectSeq(entries, OfIngredient)]

\* InventoryService.batchRecordUsage: what it throws, or "ok".
batchRecordUsageResult(usages, userId) ==
    IF usages = <<>> THEN "ok"
    ELSE LET stockIds == {usages[i].ingredientStockId : i \in 1..Len(usages)}
             remainingQuantities == batchCalculateRemainingQuantities(stockIds, userId)
         IN  IF \E i \in 1..Len(usages) :
                    Insufficient(MapGet(remainingQuantities,
                                        usages[i].ingredientStockId, 0),
                                 usages[i].quantityUsed)
             THEN "Insufficient stock available for stock ID"
             ELSE "ok"

\* The usage_history rows batchRecordUsage inserts in its one statement.
RECURSIVE usageRecords(_)
usageRecords(usages) ==
    IF usages = <<>> THEN EmptyBag
    ELSE SetToBag({newUsage(Head(usages).ingredientStockId, Head(usages).quantityUsed)})
         (+) usageRecords(Tail(usages))

\* InventoryService.batchRecordUsage
batchRecordUsage(usages, userId) ==
    /\ UNCHANGED <<stock, spoilage, calls>>
    /\ IF usages # <<>> /\ batchRecordUsageResult(usages, userId) = "ok"
       THEN /\ EventCount + Len(usages) <= MaxEvents
            /\ usage' = usage (+) usageRecords(usages)
       ELSE UNCHANGED usage

\* ------------------------------------------- RecipeService.completeRecipe
\* RecipeService.getRecipeById: found is FALSE when the tenant has no such
\* recipe; ingredients are the recipe's rows whose ingredient the tenant owns.
getRecipeById(id, userId) ==
    LET Owned(ri) == /\ ri.recipeId = id
                     /\ \E i \in ingredients : i.id = ri.ingredientId /\ i.userId = userId
    IN  [found |-> \E r \in recipes : r.id = id /\ r.userId = userId,
         serves |-> IF \E r \in recipes : r.id = id /\ r.userId = userId
                    THEN (CHOOSE r \in recipes : r.id = id /\ r.userId = userId).serves
                    ELSE 0,
         ingredients |-> SelectSeq(recipeIngredients, Owned)]

\* The entries of a Map after set(item.ingredientId, item.quantity) for each
\* item in turn: a key keeps the place of its first set and the value of its
\* last.
RECURSIVE MapOf(_)
MapOf(items) ==
    IF items = <<>> THEN <<>>
    ELSE LET rest == MapOf(SubSeq(items, 1, Len(items) - 1))
             last == items[Len(items)]
         IN  IF \E i \in 1..Len(rest) : rest[i].ingredientId = last.ingredientId
             THEN [i \in 1..Len(rest) |->
                     IF rest[i].ingredientId = last.ingredientId THEN last ELSE rest[i]]
             ELSE Append(rest, last)

\* A quantitiesToUse that ignores actualQuantities, to try the properties
\* against.
quantitiesToUseDeclared(recipe, options) ==
    MapOf([i \in 1..Len(recipe.ingredients) |->
              [ingredientId |-> recipe.ingredients[i].ingredientId,
               quantity |-> parseFloat(recipe.ingredients[i].quantity)]])

\* quantitiesToUse: the caller's actualQuantities when given, the recipe's
\* declared quantities otherwise.
quantitiesToUse(recipe, options) ==
    IF options.actualQuantities.given
    THEN MapOf(options.actualQuantities.items)
    ELSE MapOf([i \in 1..Len(recipe.ingredients) |->
                   [ingredientId |-> recipe.ingredients[i].ingredientId,
                    quantity |-> parseFloat(recipe.ingredients[i].quantity)]])

\* The keys of ingredientInfoMap: the recipe's ingredients and, when
\* actualQuantities is given, those of its other ingredients the tenant owns.
ingredientInfoMap(recipe, userId, options, ingredientIds) ==
    LET ofRecipe == {recipe.ingredients[i].ingredientId :
                        i \in 1..Len(recipe.ingredients)}
        missingIngredientIds == ingredientIds \ ofRecipe
    IN  ofRecipe \cup
        (IF options.actualQuantities.given
         THEN {id \in missingIngredientIds :
                  \E i \in ingredients : i.id = id /\ i.userId = userId}
         ELSE {})

\* Without the sort the lots stay in the query's descending order.
SortedStockDescending(stockEntries) == stockEntries

\* [...stockEntries].sort by purchaseDate ascending; the sort is stable.
RECURSIVE SortedStock(_)
SortedStock(stockEntries) ==
    IF stockEntries = <<>> THEN <<>>
    ELSE LET init == SortedStock(SubSeq(stockEntries, 1, Len(stockEntries) - 1))
             e == stockEntries[Len(stockEntries)]
             k == Cardinality({i \in 1..Len(init) :
                                  init[i].purchaseDate <= e.purchaseDate})
         IN  SubSeq(init, 1, k) \o <<e>> \o SubSeq(init, k + 1, Len(init))

\* A distribution that takes every lot whole, to try the properties against.
RECURSIVE DistributeWholeLots(_, _, _)
DistributeWholeLots(sortedStock, i, st) ==
    IF i > Len(sortedStock) \/ st.remainingQuantity <= 0 THEN st
    ELSE LET available == parseFloat(sortedStock[i].remainingQuantity)
         IN  IF available <= 0 THEN DistributeWholeLots(sortedStock, i + 1, st)
             ELSE DistributeWholeLots(sortedStock, i + 1,
                     [usageOperations |->
                         Append(st.usageOperations,
                                [ingredientStockId |-> sortedStock[i].id,
                                 quantityUsed |-> available]),
                      remainingQuantity |-> st.remainingQuantity - available,
                      totalAvailable |-> st.totalAvailable + available])

\* The loop that distributes the required quantity over the sorted lots,
\* from lot i on.
RECURSIVE Distribute(_, _, _)
Distribute(sortedStock, i, st) ==
    IF i > Len(sortedStock) \/ st.remainingQuantity <= 0 THEN st
    ELSE LET available == parseFloat(sortedStock[i].remainingQuantity)
         IN  IF available <= 0 THEN Distribute(sortedStock, i + 1, st)
             ELSE LET quantityToUse == Min(st.remainingQuantity, available)
                  IN  Distribute(sortedStock, i + 1,
                         [usageOperations |->
                             Append(st.usageOperations,
                                    [ingredientStockId |-> sortedStock[i].id,
                                     quantityUsed |-> quantityToUse]),
                          remainingQuantity |-> st.remainingQuantity - quantityToUse,
                          totalAvailable |-> st.totalAvailable + available])

Shortage(ingredientId, requiredQuantity, availableQuantity, shortageQuantity) ==
    [ingredientId |-> ingredientId, requiredQuantity |-> requiredQuantity,
     availableQuantity |-> availableQuantity, shortageQuantity |-> shortageQuantity]

\* One round of the loop over ingredientIds: the usage operations and the
\* shortages it adds.
AllocateIngredient(ingredientId, requiredQuantity, infoMap, stockByIngredient) ==
    IF requiredQuantity <= 0 \/ ingredientId \notin infoMap
    THEN [usageOperations |-> <<>>, shortages |-> <<>>]
    ELSE LET stockEntries == MapGet(stockByIngredient, ingredientId, <<>>)
         IN  IF Len(stockEntries) = 0
             THEN [usageOperations |-> <<>>,
                   shortages |-> <<Shortage(ingredientId, requiredQuantity,
                                            0, requiredQuantity)>>]
             ELSE LET st == Distribute(SortedStock(stockEntries), 1,
                                       [usageOperations |-> <<>>,
                                        remainingQuantity |-> requiredQuantity,
                                        totalAvailable |-> 0])
                  IN  [usageOperations |-> st.usageOperations,
                       shortages |->
                          IF st.remainingQuantity > 0
                          THEN <<Shortage(ingredientId, requiredQuantity,
                                          st.totalAvailable, st.remainingQuantity)>>
                          ELSE <<>>]

\* The usage plan and the shortages after the first n ingredients.
RECURSIVE BuildPlan(_, _, _, _)
BuildPlan(quantities, n, infoMap, stockByIngredient) ==
    IF n = 0 THEN [usageOperations |-> <<>>, shortages |-> <<>>]
    ELSE LET before == BuildPlan(quantities, n - 1, infoMap, stockByIngredient)
             this == AllocateIngredient(quantities[n].ingredientId,
                                        quantities[n].quantity,
                                        infoMap, stockByIngredient)
         IN  [usageOperations |-> before.usageOperations \o this.usageOperations,
              shortages |-> before.shortages \o this.shortages]

\* The ingredient ids completeRecipe asks the stock of.
CompletionIngredientIds(recipeId, userId, options) ==
    LET quantities == quantitiesToUse(getRecipeById(recipeId, userId), options)
    IN  {quantities[i].ingredientId : i \in 1..Len(quantities)}

\* Faulty decisions to try the properties against: never refusing, and
\* refusing on any shortage whatever allowPartialStock says.
RefuseCompletionNever(shortages, options) == FALSE
RefuseCompletionOnShortage(shortages, options) == Len(shortages) > 0

\* The decision that ends completeRecipe: TRUE when nothing is written and
\* the shortages are returned as a failure.
RefuseCompletion(shortages, options) ==
    Len(shortages) > 0 /\ ~options.allowPartialStock

\* RecipeService.completeRecipe up to its write, the lots having been
\* returned in the given order: what it throws or "ok", what it returns, its
\* usage plan, and the usage operations it hands to batchRecordUsage.
completeRecipeResult(recipeId, userId, options, order) ==
    LET recipe == getRecipeById(recipeId, userId)
        quantities == quantitiesToUse(recipe, options)
        ingredientIds == {quantities[i].ingredientId : i \in 1..Len(quantities)}
        infoMap == ingredientInfoMap(recipe, userId, options, ingredientIds)
        stockByIngredient == batchGetIngredientStock(ingredientIds, userId, order)
        plan == BuildPlan(quantities, Len(quantities), infoMap, stockByIngredient)
    IN  IF ~recipe.found
        THEN [status |-> "Recipe not found", success |-> FALSE, shortages |-> <<>>,
              usageOperations |-> <<>>, written |-> <<>>]
        ELSE IF RefuseCompletion(plan.shortages, options)
        THEN [status |-> "ok", success |-> FALSE, shortages |-> plan.shortages,
              usageOperations |-> plan.usageOperations, written |-> <<>>]
        ELSE IF batchRecordUsageResult(plan.usageOperations, userId) # "ok"
        THEN [status |-> batchRecordUsageResult(plan.usageOperations, userId),
              success |-> FALSE, shortages |-> plan.shortages,
              usageOperations |-> plan.usageOperations, written |-> <<>>]
        ELSE [status |-> "ok", success |-> TRUE, shortages |-> plan.shortages,
              usageOperations |-> plan.usageOperations,
              written |-> plan.usageOperations]

\* RecipeService.completeRecipe, run without any overlapping call
completeRecipe(recipeId, userId, options) ==
    /\ UNCHANGED <<stock, spoilage, calls>>
    /\ IF ~getRecipeById(recipeId, userId).found
       THEN UNCHANGED usage
       ELSE /\ EventCount < MaxEvents
            /\ \E order \in StockOrders(CompletionIngredientIds(recipeId, userId,
                                                                options), userId) :
                  LET r == completeRecipeResult(recipeId, userId, options, order)
                  IN  IF r.written # <<>>
                      THEN /\ EventCount + Len(r.written) <= MaxEvents
                           /\ usage' = usage (+) usageRecords(r.written)
                      ELSE UNCHANGED usage

\* Completion requests.  actualQuantities is absent (given = FALSE) or a
\* list of items.
Quantity(ingredientId, quantity) == [ingredientId |-> ingredientId, quantity |-> quantity]
Declared == [given |-> FALSE, items |-> <<>>]
Actual(items) == [given |-> TRUE, items |-> items]
CompletionInput(recipeId, userId, allowPartialStock, actualQuantities) ==
    [recipeId |-> recipeId, userId |-> userId,
     options |-> [allowPartialStock |-> allowPartialStock,
                  actualQuantities |-> actualQuantities]]

\* The tenant's recipe as declared and with two overrides (a quantity with
\* three decimals beside one no stock can meet, in either order), each with
\* and without allowPartialStock; an override naming another tenant's
\* ingredient, alone and beside one of the tenant's; an override naming one
\* of the recipe's two ingredients; the
\* other tenant's own recipe; another tenant's recipe; a recipe that does
\* not exist.
CompletionInputs ==
    { CompletionInput("bread", "u1", partial, actual) :
         partial \in BOOLEAN,
         actual \in { Declared,
                      Actual(<<Quantity("flour", 2 * Ticks + 1),
                               Quantity("sugar", 12 * Ticks)>>),
                      Actual(<<Quantity("sugar", 3 * Ticks),
                               Quantity("flour", 12 * Ticks)>>) } }
    \cup { CompletionInput("brine", "u2", partial, Declared) : partial \in BOOLEAN }
    \cup { CompletionInput("bread", "u1", TRUE, Actual(<<Quantity("salt", Ticks)>>)),
           CompletionInput("bread", "u1", TRUE, Actual(<<Quantity("flour", 2 * Ticks)>>)),
           CompletionInput("bread", "u1", FALSE,
                           Actual(<<Quantity("flour", 2 * Ticks),
                                    Quantity("salt", Ticks)>>)),
           CompletionInput("bread", "u2", FALSE, Declared),
           CompletionInput("cake", "u1", FALSE, Declared) }

\* ------------------------------------------- InventoryService.getAllStock
\* Sum of a function's values.
RECURSIVE SumFn(_)
SumFn(f) ==
    IF DOMAIN f = {} THEN 0
    ELSE LET x == CHOOSE y \in DOMAIN f : TRUE
         IN  f[x] + SumFn([y \in DOMAIN f \ {x} |-> f[y]])

\* Rows of usage_history and of spoilage_records that name a lot.
UsageRowCount(stockId) ==
    SumFn([r \in {x \in BagToSet(usage) : x.ingredientStockId = stockId} |-> usage[r]])
SpoilageRowCount(stockId) ==
    SumFn([r \in {x \in BagToSet(spoilage) : x.ingredientStockId = stockId} |->
              spoilage[r]])

\* The grouped query of getAllStock: ingredient_stock LEFT JOIN usage_history
\* LEFT JOIN spoilage_records, grouped by lot.  A lot with m usage rows and
\* n spoilage rows has Max(m, 1) * Max(n, 1) joined rows; each usage row
\* occurs in Max(n, 1) of them and each spoilage row in Max(m, 1).
stockWithRemaining(userId) ==
    [id \in {x \in StockIds : stock[x].userId = userId} |->
        LET usageRows == {r \in BagToSet(usage) : r.ingredientStockId = id}
            spoilageRows == {r \in BagToSet(spoilage) : r.ingredientStockId = id}
        IN  [ingredientId |-> stock[id].ingredientId,
             storageLocationId |-> stock[id].storageLocationId,
             originalQuantity |-> stock[id].quantity,
             totalUsed |-> SumUsageRows(usageRows, usage)
                              * Max(SpoilageRowCount(id), 1),
             totalSpoiled |-> SumSpoilageRows(spoilageRows, spoilage)
                                 * Max(UsageRowCount(id), 1)]]

\* A summary built from the lots instead of the ingredients, to try the
\* properties against: an ingredient without remaining stock is left out.
getAllStockStockedOnly(userId) ==
    LET rows == stockWithRemaining(userId)
        remaining(id) == Max(0, parseFloat(rows[id].originalQuantity)
                                   - parseFloat(rows[id].totalUsed)
                                   - parseFloat(rows[id].totalSpoiled))
        kept == {id \in DOMAIN rows : remaining(id) > 0}
    IN  [ing \in {rows[id].ingredientId : id \in kept} |->
            [totalStock |-> toFixed2(SumFn([id \in {x \in kept : rows[x].ingredientId = ing} |->
                                               remaining(id)])),
             locations |-> [loc \in {rows[id].storageLocationId :
                                        id \in {x \in kept : rows[x].ingredientId = ing}} |->
                               toFixed2(SumFn([id \in {x \in kept :
                                                          /\ rows[x].ingredientId = ing
                                                          /\ rows[x].storageLocationId = loc} |->
                                                  remaining(id)]))]]]

\* InventoryService.getAllStock: per ingredient of the tenant its totalStock
\* and, per listed location, the quantity there.
getAllStock(userId) ==
    LET rows == stockWithRemaining(userId)
        remaining(id) == Max(0, parseFloat(rows[id].originalQuantity)
                                   - parseFloat(rows[id].totalUsed)
                                   - parseFloat(rows[id].totalSpoiled))
        kept == {id \in DOMAIN rows : remaining(id) > 0}
        stockByIngredient(ing) ==
            [loc \in {rows[id].storageLocationId :
                         id \in {x \in kept : rows[x].ingredientId = ing}} |->
                SumFn([id \in {x \in kept : /\ rows[x].ingredientId = ing
                                            /\ rows[x].storageLocationId = loc} |->
                          remaining(id)])]
    IN  [ing \in {i.id : i \in {x \in ingredients : x.userId = userId}} |->
            LET ingredientStock == stockByIngredient(ing)
                listed == {loc \in DOMAIN ingredientStock : ingredientStock[loc] > 0}
            IN  [totalStock |-> toFixed2(SumFn([loc \in listed |-> ingredientStock[loc]])),
                 locations |-> [loc \in listed |-> toFixed2(ingredientStock[loc])]]]

\* ------------------------------------ overlapping recordUsage/recordSpoilage
\* A call of recordUsage or recordSpoilage taken one database round trip at
\* a time, so that the steps of two calls interleave.
Procs == {1, 2}
Idle == [pc |-> "idle"]

\* The lookup that opens the call.  A call that throws here ends at once.
beginCall(p, op, stockId, quantity, userId) ==
    /\ calls[p] = Idle
    /\ UNCHANGED ledger
    /\ IF StockFound(stockId, userId)
       THEN calls' = [calls EXCEPT ![p] = [pc |-> "readUsed", op |-> op,
                                           stockId |-> stockId, quantity |-> quantity,
                                           userId |-> userId, totalUsed |-> 0]]
       ELSE UNCHANGED calls

\* calculateRemainingQuantity: the query that sums the lot's usage.
readTotalUsed(p) ==
    /\ calls[p].pc = "readUsed"
    /\ UNCHANGED ledger
    /\ calls' = [calls EXCEPT ![p].pc = "readSpoiled",
                              ![p].totalUsed = TotalUsed(calls[p].stockId,
                                                         calls[p].userId)]

\* calculateRemainingQuantity: the query that sums the lot's spoilage, and
\* the sufficiency check on its result.
checkRemaining(p) ==
    /\ calls[p].pc = "readSpoiled"
    /\ UNCHANGED ledger
    /\ LET originalQuantity == parseFloat(stock[calls[p].stockId].quantity)
           totalUsed == parseFloat(calls[p].totalUsed)
           totalSpoiled == parseFloat(TotalSpoiled(calls[p].stockId, calls[p].userId))
           remaining == toFixed2(Max(0, originalQuantity - totalUsed - totalSpoiled))
       IN  IF Insufficient(remaining, calls[p].quantity)
           THEN calls' = [calls EXCEPT ![p] = Idle]
           ELSE calls' = [calls EXCEPT ![p].pc = "insert", ![p].totalUsed = 0]

\* The insert that ends the call.
insertRow(p) ==
    /\ calls[p].pc = "insert"
    /\ EventCount < MaxEvents
    /\ UNCHANGED stock
    /\ calls' = [calls EXCEPT ![p] = Idle]
    /\ IF calls[p].op = "usage"
       THEN /\ usage' = usage (+) SetToBag({newUsage(calls[p].stockId,
                                                     calls[p].quantity)})
            /\ UNCHANGED spoilage
       ELSE /\ spoilage' = spoilage (+) SetToBag({newSpoilage(calls[p].stockId,
                                                              calls[p].quantity)})
            /\ UNCHANGED usage

\* ------------------------------------------------------- analytics cache
\* The cached aggregates of InventoryAnalyticsService
\* (src/src/services/inventory-analytics.service.ts) and the callbacks that
\* recompute them.  A callback is taken one awaited query at a time, so that
\* callbacks interleave with each other and with ledger writes; a query
\* that reads only directory rows is taken together with the next one.
\* Of the aggregates the model keeps totalValue, remainingValue,
\* totalPurchases and totalIngredients; the per-supplier, per-category and
\* trend figures are computed from the same query results and left out.

\* Callbacks the event loop holds at one time.
Tasks == {1, 2}
\* The instants the clock shows, in hours, and the age a cached row may have.
Instants == {0, 1, 2, 24}
OneHour == 1
\* new Date().toISOString().split("T")[0]
Date(t) == t \div 24

\* parseFloat(purchasePrice) / quantity, exact for the lots of the requests
pricePerUnit(row) == parseFloat(row.purchasePrice) \div parseFloat(row.quantity)

\* Math.min(Math.max(0, quantity - used - spoiled), quantity) of one lot
validRemaining(id, rows, usageMap, spoilageMap) ==
    LET quantity == parseFloat(rows[id].quantity)
        used == MapGet(usageMap, id, 0)
        spoiled == MapGet(spoilageMap, id, 0)
        remainingQty == Max(0, quantity - used - spoiled)
    IN  Min(remainingQty, quantity)

\* The lots a statistics query selects, with the columns the model keeps.
StockRows(stockIds) ==
    [id \in stockIds |-> [quantity |-> stock[id].quantity,
                          purchasePrice |-> stock[id].purchasePrice,
                          purchaseDate |-> stock[id].purchaseDate,
                          ingredientId |-> stock[id].ingredientId,
                          restockThreshold |-> restockThreshold[stock[id].ingredientId]]]

\* SUM(quantity_used) GROUP BY ingredient_stock_id over the given lots: a
\* lot without usage rows has no group.
allUsage(stockIds) ==
    [id \in {x \in stockIds : \E r \in BagToSet(usage) : r.ingredientStockId = x} |->
        parseFloat(SumUsageRows({r \in BagToSet(usage) : r.ingredientStockId = id},
                                usage))]

\* SUM(quantity) GROUP BY ingredient_stock_id of spoilage_records.
allSpoilage(stockIds) ==
    [id \in {x \in stockIds : \E r \in BagToSet(spoilage) : r.ingredientStockId = x} |->
        parseFloat(SumSpoilageRows({r \in BagToSet(spoilage) :
                                       r.ingredientStockId = id}, spoilage))]

\* ingredientMap and the low stock check after the loop over the lots: the
\* ingredients of the lots whose threshold is set and above the remaining
\* quantity of their lots.
lowStockIngredients(allStock, usageMap, spoilageMap) ==
    {ing \in {allStock[id].ingredientId : id \in DOMAIN allStock} :
        LET lots == {id \in DOMAIN allStock : allStock[id].ingredientId = ing}
            first == CHOOSE id \in lots : TRUE
            threshold == IF allStock[first].restockThreshold # NullThreshold
                         THEN parseFloat(allStock[first].restockThreshold)
                         ELSE NullThreshold
            remainingQuantity ==
                SumFn([id \in lots |-> validRemaining(id, allStock, usageMap, spoilageMap)])
        IN  /\ threshold # NullThreshold
            /\ threshold # 0
            /\ remainingQuantity < threshold}

\* InventoryAnalyticsService.calculateOverallStatistics, from the results of
\* its queries.
calculateOverallStatistics(allStock, usageMap, spoilageMap, uniqueIngredients) ==
    IF DOMAIN allStock = {}
    THEN [totalValue |-> 0, remainingValue |-> 0, totalPurchases |-> 0,
          totalIngredients |-> 0, lowStockCount |-> 0]
    ELSE [totalValue |->
              SumFn([id \in DOMAIN allStock |->
                        parseFloat(allStock[id].quantity) * pricePerUnit(allStock[id])]),
          remainingValue |->
              SumFn([id \in DOMAIN allStock |->
                        validRemaining(id, allStock, usageMap, spoilageMap)
                           * pricePerUnit(allStock[id])]),
          totalPurchases |-> Cardinality(DOMAIN allStock),
          totalIngredients |-> uniqueIngredients,
          lowStockCount |->
              Cardinality(lowStockIngredients(allStock, usageMap, spoilageMap))]

\* InventoryAnalyticsService.calculateIngredientAnalytics, from the results
\* of its queries.
calculateIngredientAnalytics(stockEntries, usageMap, spoilageMap) ==
    IF DOMAIN stockEntries = {}
    THEN [totalValue |-> 0, remainingValue |-> 0, totalPurchases |-> 0]
    ELSE [totalValue |->
              SumFn([id \in DOMAIN stockEntries |->
                        parseFloat(stockEntries[id].quantity)
                           * pricePerUnit(stockEntries[id])]),
          remainingValue |->
              SumFn([id \in DOMAIN stockEntries |->
                        validRemaining(id, stockEntries, usageMap, spoilageMap)
                           * pricePerUnit(stockEntries[id])]),
          totalPurchases |-> Cardinality(DOMAIN stockEntries)]

\* The days the trends look back.
TrendDays == 90
GapDays == 30

\* cumulativeTotalValue += event.purchaseValue and cumulativeRemainingValue
\* += event.remainingValue over purchase events in the order of their dates.
RECURSIVE cumulativeValue(_, _, _, _)
cumulativeValue(events, stockEntries, usageMap, spoilageMap) ==
    IF events = {} THEN [totalValue |-> 0, remainingValue |-> 0]
    ELSE LET event == CHOOSE e \in events :
                         \A o \in events :
                            stockEntries[o].purchaseDate <= stockEntries[e].purchaseDate
             before == cumulativeValue(events \ {event}, stockEntries, usageMap,
                                       spoilageMap)
         IN  [totalValue |->
                  before.totalValue
                     + parseFloat(stockEntries[event].quantity)
                          * pricePerUnit(stockEntries[event]),
              remainingValue |->
                  before.remainingValue
                     + validRemaining(event, stockEntries, usageMap, spoilageMap)
                          * pricePerUnit(stockEntries[event])]

\* stockValueTrend of calculateIngredientAnalytics on the day today, dates in
\* days: one point for each purchase date of the last 90 days, and before a
\* single point a point of value 0 thirty days earlier.
stockValueTrend(stockEntries, usageMap, spoilageMap, today) ==
    LET ninetyDaysAgo == today - TrendDays
        purchaseEvents == {id \in DOMAIN stockEntries :
                              stockEntries[id].purchaseDate >= ninetyDaysAgo}
        valueDates == {stockEntries[id].purchaseDate : id \in purchaseEvents}
        valueByDate(date) ==
            cumulativeValue({id \in purchaseEvents :
                                stockEntries[id].purchaseDate <= date},
                            stockEntries, usageMap, spoilageMap)
        points == {[date |-> date, totalValue |-> valueByDate(date).totalValue,
                    remainingValue |-> valueByDate(date).remainingValue] :
                      date \in valueDates}
    IN  IF Cardinality(valueDates) = 1
           /\ (CHOOSE date \in valueDates : TRUE) - GapDays >= ninetyDaysAgo
        THEN points \cup {[date |-> (CHOOSE date \in valueDates : TRUE) - GapDays,
                           totalValue |-> 0, remainingValue |-> 0]}
        ELSE points

\* The daily_inventory_snapshots row saveDailySnapshot writes.
snapshotRow(userId, today, stats) ==
    [userId |-> userId, snapshotDate |-> today,
     totalValue |-> numeric2(stats.totalValue),
     remainingValue |-> numeric2(stats.remainingValue),
     totalPurchases |-> stats.totalPurchases,
     totalIngredients |-> stats.totalIngredients,
     updatedAt |-> now]

\* The ingredient_analytics row updateIngredientAnalytics writes.
analyticsRow(userId, ingredientId, analytics) ==
    [userId |-> userId, ingredientId |-> ingredientId,
     totalValue |-> numeric2(analytics.totalValue),
     remainingValue |-> numeric2(analytics.remainingValue),
     totalPurchases |-> analytics.totalPurchases,
     updatedAt |-> now]

\* An insert without the conflict clause, to try the properties against.
insertSnapshot(rows, row) == rows \cup {row}

\* INSERT ... ON CONFLICT (user_id, snapshot_date) DO UPDATE
upsertSnapshot(rows, row) ==
    {r \in rows : ~(r.userId = row.userId /\ r.snapshotDate = row.snapshotDate)}
        \cup {row}

\* INSERT ... ON CONFLICT (user_id, ingredient_id) DO UPDATE
upsertAnalytics(rows, row) ==
    {r \in rows : ~(r.userId = row.userId /\ r.ingredientId = row.ingredientId)}
        \cup {row}

\* A callback as setImmediate receives it: where it starts, the tenant and
\* ingredients it recomputes, and the message its catch clause prints.
Callback(pc, userId, ingredientIds, message) ==
    [pc |-> pc, userId |-> userId, ingredientIds |-> ingredientIds,
     message |-> message, today |-> 0, ingredientId |-> "",
     rows |-> <<>>, usageMap |-> <<>>, spoilageMap |-> <<>>]

\* A setImmediate that forgets the callback, to try the properties against.
setImmediateDropped(callback) == UNCHANGED loop

\* setImmediate(callback): the callback waits in the first free place.
setImmediate(callback) ==
    /\ \E t \in Tasks : loop[t] = Idle
    /\ loop' = [loop EXCEPT ![CHOOSE t \in Tasks :
                                 /\ loop[t] = Idle
                                 /\ \A s \in Tasks : loop[s] = Idle => t <= s]
                               = callback]

\* A catch clause that throws the error on instead of printing it, to try
\* the properties against.
catchAndRethrow(message) == console \cup {"unhandledRejection"}

\* catch (error) { console.error(message, error) }
catchAndLog(message) == console \cup {message}

\* What a callback step leaves alone.
callbackFrame == UNCHANGED <<ledger, calls, requests, costs, now>>

\* saveDailySnapshot begins: today's date, and the lots of the tenant.
snapshotReadStock(t) ==
    /\ loop[t].pc = "saveDailySnapshot"
    /\ callbackFrame
    /\ UNCHANGED <<dailyInventorySnapshots, ingredientAnalytics, console>>
    /\ LET allStock == StockRows({id \in StockIds : stock[id].userId = loop[t].userId})
       IN  loop' = [loop EXCEPT ![t].today = Date(now),
                                ![t].rows = allStock,
                                ![t].pc = IF DOMAIN allStock = {}
                                          THEN "snapshotUpsert"
                                          ELSE "snapshotUsage"]

\* calculateOverallStatistics: the usage sums of those lots.
snapshotReadUsage(t) ==
    /\ loop[t].pc = "snapshotUsage"
    /\ callbackFrame
    /\ UNCHANGED <<dailyInventorySnapshots, ingredientAnalytics, console>>
    /\ loop' = [loop EXCEPT ![t].usageMap = allUsage(DOMAIN loop[t].rows),
                            ![t].pc = "snapshotSpoilage"]

\* calculateOverallStatistics: the spoilage sums of those lots.
snapshotReadSpoilage(t) ==
    /\ loop[t].pc = "snapshotSpoilage"
    /\ callbackFrame
    /\ UNCHANGED <<dailyInventorySnapshots, ingredientAnalytics, console>>
    /\ loop' = [loop EXCEPT ![t].spoilageMap = allSpoilage(DOMAIN loop[t].rows),
                            ![t].pc = "snapshotUpsert"]

\* What the callback does after a recomputation: the next ingredient, or
\* the end.
afterUpsert(task, ingredientIds) ==
    IF ingredientIds = {} THEN Idle
    ELSE [task EXCEPT !.pc = "updateIngredientAnalytics",
                      !.ingredientIds = ingredientIds, !.ingredientId = "",
                      !.today = 0, !.rows = <<>>,
                      !.usageMap = <<>>, !.spoilageMap = <<>>]

\* InventoryAnalyticsService.saveDailySnapshot: the count of the tenant's
\* ingredients and the upsert of the snapshot.
saveDailySnapshot(t) ==
    /\ loop[t].pc = "snapshotUpsert"
    /\ callbackFrame
    /\ UNCHANGED <<ingredientAnalytics, console>>
    /\ LET userId == loop[t].userId
           uniqueIngredients == Cardinality({i \in ingredients : i.userId = userId})
           stats == calculateOverallStatistics(loop[t].rows, loop[t].usageMap,
                                               loop[t].spoilageMap, uniqueIngredients)
       IN  dailyInventorySnapshots' =
               upsertSnapshot(dailyInventorySnapshots,
                              snapshotRow(userId, loop[t].today, stats))
    /\ loop' = [loop EXCEPT ![t] = afterUpsert(loop[t], loop[t].ingredientIds)]

\* updateIngredientAnalytics begins: the ingredient is looked up for the
\* tenant ('Ingredient not found' otherwise, which the callback's catch
\* clause prints), and its lots are read.
analyticsReadStock(t) ==
    /\ loop[t].pc = "updateIngredientAnalytics"
    /\ callbackFrame
    /\ UNCHANGED <<dailyInventorySnapshots, ingredientAnalytics>>
    /\ \E ingredientId \in loop[t].ingredientIds :
          IF [id |-> ingredientId, userId |-> loop[t].userId] \notin ingredients
          THEN /\ console' = catchAndLog(loop[t].message)
               /\ loop' = [loop EXCEPT ![t] = Idle]
          ELSE LET stockEntries ==
                       StockRows({id \in StockIds :
                                     /\ stock[id].ingredientId = ingredientId
                                     /\ stock[id].userId = loop[t].userId})
               IN  /\ UNCHANGED console
                   /\ loop' = [loop EXCEPT ![t].ingredientId = ingredientId,
                                           ![t].rows = stockEntries,
                                           ![t].pc = IF DOMAIN stockEntries = {}
                                                     THEN "analyticsUpsert"
                                                     ELSE "analyticsUsage"]

\* calculateIngredientAnalytics: the usage sums of the ingredient's lots.
analyticsReadUsage(t) ==
    /\ loop[t].pc = "analyticsUsage"
    /\ callbackFrame
    /\ UNCHANGED <<dailyInventorySnapshots, ingredientAnalytics, console>>
    /\ loop' = [loop EXCEPT ![t].usageMap = allUsage(DOMAIN loop[t].rows),
                            ![t].pc = "analyticsSpoilage"]

\* calculateIngredientAnalytics: the spoilage sums of the ingredient's lots.
analyticsReadSpoilage(t) ==
    /\ loop[t].pc = "analyticsSpoilage"
    /\ callbackFrame
    /\ UNCHANGED <<dailyInventorySnapshots, ingredientAnalytics, console>>
    /\ loop' = [loop EXCEPT ![t].spoilageMap = allSpoilage(DOMAIN loop[t].rows),
                            ![t].pc = "analyticsUpsert"]

\* InventoryAnalyticsService.updateIngredientAnalytics: the upsert.
updateIngredientAnalytics(t) ==
    /\ loop[t].pc = "analyticsUpsert"
    /\ callbackFrame
    /\ UNCHANGED <<dailyInventorySnapshots, console>>
    /\ LET analytics == calculateIngredientAnalytics(loop[t].rows, loop[t].usageMap,
                                                     loop[t].spoilageMap)
       IN  ingredientAnalytics' =
               upsertAnalytics(ingredientAnalytics,
                               analyticsRow(loop[t].userId, loop[t].ingredientId,
                                            analytics))
    /\ loop' = [loop EXCEPT ![t] = afterUpsert(loop[t],
                                               loop[t].ingredientIds
                                                  \ {loop[t].ingredientId})]

\* A query of a callback fails: the error reaches the callback's catch
\* clause, which prints it, and the callback ends.
callbackFails(t) ==
    /\ loop[t] # Idle
    /\ callbackFrame
    /\ UNCHANGED <<dailyInventorySnapshots, ingredientAnalytics>>
    /\ console' = catchAndLog(loop[t].message)
    /\ loop' = [loop EXCEPT ![t] = Idle]

\* The callbacks the ledger writes register once their row is inserted.
afterWrite(written, userId, ingredientIds, message) ==
    /\ UNCHANGED <<dailyInventorySnapshots, ingredientAnalytics, requests, costs, console,
                   now>>
    /\ IF written
       THEN setImmediate(Callback("saveDailySnapshot", userId, ingredientIds, message))
       ELSE UNCHANGED loop

afterPurchase(data, userId) ==
    afterWrite(recordPurchaseResult(data, userId) = "ok", userId, {data.ingredientId},
               "Error updating analytics after purchase:")

afterUsage(data, userId) ==
    afterWrite(recordUsageResult(data, userId) = "ok", userId,
               {stock[id].ingredientId :
                   id \in {x \in {data.ingredientStockId} : StockFound(x, userId)}},
               "Error updating analytics after usage:")

afterSpoilage(data, userId) ==
    afterWrite(recordSpoilageResult(data, userId) = "ok", userId,
               {stock[id].ingredientId :
                   id \in {x \in {data.ingredientStockId} : StockFound(x, userId)}},
               "Error updating analytics after spoilage:")

afterBatchUsage(usages, userId) ==
    afterWrite(usages # <<>> /\ batchRecordUsageResult(usages, userId) = "ok", userId,
               {stock[id].ingredientId :
                   id \in {x \in {usages[i].ingredientStockId : i \in 1..Len(usages)} :
                              StockFound(x, userId)}},
               "Error updating analytics after batch usage:")

\* ------------------------------------- GET /ingredient/:ingredientId
\* Handlers of the route in progress.
Readers == {1}

\* No row read or sent yet.
noAnalytics ==
    [userId |-> "", ingredientId |-> "", totalValue |-> 0, remainingValue |-> 0,
     totalPurchases |-> 0, updatedAt |-> 0]

\* The body the route sends when the first computation fails.
emptyAnalytics(ingredientId) ==
    [userId |-> "", ingredientId |-> ingredientId, totalValue |-> 0,
     remainingValue |-> 0, totalPurchases |-> 0, updatedAt |-> now]

\* The handler's select.  Without a cached row it calls
\* updateIngredientAnalytics(ingredientId), with no tenant: the ingredient
\* lookup finds nothing, the error is printed and an empty body is sent.
getIngredientAnalyticsSelect(r, ingredientId) ==
    /\ requests[r].pc \in {"idle", "responded"}
    /\ UNCHANGED <<ledger, calls, dailyInventorySnapshots, ingredientAnalytics, loop, costs,
                   now>>
    /\ IF \E row \in ingredientAnalytics : row.ingredientId = ingredientId
       THEN /\ \E row \in ingredientAnalytics :
                  /\ row.ingredientId = ingredientId
                  /\ requests' = [requests EXCEPT ![r] =
                                     [pc |-> "selected", analytics |-> row,
                                      data |-> noAnalytics]]
            /\ UNCHANGED console
       ELSE /\ requests' = [requests EXCEPT ![r] =
                               [pc |-> "responded",
                                analytics |-> emptyAnalytics(ingredientId),
                                data |-> emptyAnalytics(ingredientId)]]
            /\ console' = catchAndLog("Error calculating ingredient analytics:")

\* updatedAt < oneHourAgo
isStale(analytics) == analytics.updatedAt < now - OneHour

\* The rest of the handler: a stale row registers the refreshing callback,
\* and the row read is sent.
getIngredientAnalyticsRespond(r) ==
    /\ requests[r].pc = "selected"
    /\ UNCHANGED <<ledger, calls, dailyInventorySnapshots, ingredientAnalytics, costs,
                   console, now>>
    /\ IF isStale(requests[r].analytics)
       THEN setImmediate(Callback("updateIngredientAnalytics", "undefined",
                                  {requests[r].analytics.ingredientId},
                                  "Error refreshing stale analytics in background:"))
       ELSE UNCHANGED loop
    /\ requests' = [requests EXCEPT ![r].pc = "responded",
                                    ![r].data = requests[r].analytics]

\* ------------------------------- GET /overview and the statistics routes
\* req.user.userId: the tenant the request of a handler is authenticated as.
authenticate(r) == "u1"

\* SELECT * FROM daily_inventory_snapshots ORDER BY snapshot_date DESC
\* LIMIT 1: the rows the select may return.  Rows of one date come in any
\* order.
latestSnapshots ==
    {row \in dailyInventorySnapshots :
        \A other \in dailyInventorySnapshots : other.snapshotDate <= row.snapshotDate}

\* GET /overview.  Without any row it calls saveDailySnapshot() with no
\* tenant: the insert has no user_id, the error goes to next(error) and no
\* row is written or sent.
getOverview(r) ==
    /\ requests[r].pc \in {"idle", "responded"}
    /\ UNCHANGED <<ledger, calls, dailyInventorySnapshots, ingredientAnalytics, loop, costs,
                   console, now>>
    /\ IF latestSnapshots = {}
       THEN requests' = [requests EXCEPT ![r] =
                            [pc |-> "responded", analytics |-> noAnalytics,
                             data |-> noAnalytics]]
       ELSE \E latest \in latestSnapshots :
               requests' = [requests EXCEPT ![r] =
                               [pc |-> "responded", analytics |-> noAnalytics,
                                data |-> latest]]

\* GET /best-suppliers and GET /category-distribution: the statistics of the
\* row of the same select, or an empty list; the body is written here as the
\* row it is taken from.
getCategoryDistribution(r) ==
    /\ requests[r].pc \in {"idle", "responded"}
    /\ UNCHANGED <<ledger, calls, dailyInventorySnapshots, ingredientAnalytics, loop, costs,
                   console, now>>
    /\ IF latestSnapshots = {}
       THEN requests' = [requests EXCEPT ![r] =
                            [pc |-> "responded", analytics |-> noAnalytics,
                             data |-> noAnalytics]]
       ELSE \E latest \in latestSnapshots :
               requests' = [requests EXCEPT ![r] =
                               [pc |-> "responded", analytics |-> noAnalytics,
                                data |-> latest]]

\* Time passes, up to the instant t.
tick(t) ==
    /\ t > now
    /\ now' = t
    /\ UNCHANGED <<ledger, calls, dailyInventorySnapshots, ingredientAnalytics, loop,
                   requests, costs, console>>


\* ------------------------------------------------ recipe and menu costs
\* Numbers that are not whole: <<numerator, denominator>> in lowest terms,
\* for the numerators >= 0 and denominators > 0 the calculations meet.
RECURSIVE GCD(_, _)
GCD(a, b) == IF b = 0 THEN a ELSE GCD(b, a % b)

Rat(n, d) == LET g == GCD(n, d) IN <<n \div g, d \div g>>
RatAdd(a, b) == Rat(a[1] * b[2] + b[1] * a[2], a[2] * b[2])
RatMul(a, b) == Rat(a[1] * b[1], a[2] * b[2])
RatDiv(a, b) == Rat(a[1] * b[2], a[2] * b[1])

\* No answer yet.
NoCost == [of |-> "none"]

\* The servings of GET /:id/cost; without the query parameter the route
\* passes undefined, written here as a value that is not given.
ServingsInputs ==
    [given : {FALSE}, value : {0}] \cup [given : {TRUE}, value : {0, 2, 4, 8}]

\* No row.
NoLot == 0

\* The lot the lastPurchase query can return for an ingredient: a lot of the
\* tenant with the latest purchase date; which one, among lots of that date,
\* is the database's choice.
LatestLots(ingredientId, userId) ==
    LET lots == {id \in StockIds : /\ stock[id].ingredientId = ingredientId
                                   /\ stock[id].userId = userId}
    IN  IF lots = {} THEN {NoLot}
        ELSE {id \in lots :
                 \A other \in lots : stock[other].purchaseDate <= stock[id].purchaseDate}

\* What the lastPurchase queries of one calculation can return, for each
\* ingredient.
RECURSIVE LastPurchasesOf(_, _)
LastPurchasesOf(ingredientIds, userId) ==
    IF ingredientIds = {} THEN {<<>>}
    ELSE LET i == CHOOSE x \in ingredientIds : TRUE
         IN  {(i :> lot) @@ f : lot \in LatestLots(i, userId),
                                f \in LastPurchasesOf(ingredientIds \ {i}, userId)}

LastPurchases(userId) == LastPurchasesOf(IngredientIds, userId)

\* breakdown.reduce((sum, item) => sum + item.subtotal, 0)
RECURSIVE SumSubtotals(_)
SumSubtotals(breakdown) ==
    IF breakdown = <<>> THEN Rat(0, 1)
    ELSE RatAdd(SumSubtotals(SubSeq(breakdown, 1, Len(breakdown) - 1)),
                breakdown[Len(breakdown)].subtotal)

\* RecipeService.calculateRecipeCost, with the rows lastPurchase its queries
\* return.
calculateRecipeCost(recipeId, userId, desiredServings, lastPurchase) ==
    LET recipe == getRecipeById(recipeId, userId)
        baseServes == parseFloat(recipe.serves)
        servings == IF desiredServings.given /\ desiredServings.value # 0
                    THEN desiredServings.value
                    ELSE baseServes
        multiplier == Rat(servings, baseServes)
        line(recipeIngredient) ==
            LET baseQuantity == parseFloat(recipeIngredient.quantity)
                adjustedQuantity == RatMul(Rat(baseQuantity, 1), multiplier)
                lot == lastPurchase[recipeIngredient.ingredientId]
                unitPrice ==
                    IF lot # NoLot /\ parseFloat(stock[lot].quantity) > 0
                    THEN Rat(parseFloat(stock[lot].purchasePrice),
                             parseFloat(stock[lot].quantity))
                    ELSE Rat(0, 1)
            IN  [ingredient |-> recipeIngredient.ingredientId,
                 quantity |-> adjustedQuantity,
                 unitPrice |-> unitPrice,
                 subtotal |-> RatMul(adjustedQuantity, unitPrice)]
        breakdown == [i \in 1..Len(recipe.ingredients) |-> line(recipe.ingredients[i])]
        totalCost == SumSubtotals(breakdown)
    IN  IF ~recipe.found THEN [error |-> "Recipe not found"]
        ELSE [error |-> "", totalCost |-> totalCost, breakdown |-> breakdown,
              serves |-> servings,
              costPerServing |-> RatDiv(totalCost, Rat(servings, 1))]

\* GET /:id/cost
getRecipeCost(id, userId, servings) ==
    /\ \E lastPurchase \in LastPurchases(userId) :
          costs' = [of |-> "recipe", id |-> id, userId |-> userId,
                    servings |-> servings, lastPurchase |-> lastPurchase,
                    data |-> calculateRecipeCost(id, userId, servings, lastPurchase)]
    /\ UNCHANGED <<ledger, calls, dailyInventorySnapshots, ingredientAnalytics, loop,
                   requests, console, now>>

\* estimatedCost: null
Null == <<>>

\* Step 5 of getAllRecipes for one recipe: the rows of the recipe whose
\* ingredient has a last purchase of positive quantity.
pricedRows(recipeId, lastPurchaseMap) ==
    SelectSeq(recipeIngredients,
              LAMBDA ri : /\ ri.recipeId = recipeId
                          /\ lastPurchaseMap[ri.ingredientId] # NoLot
                          /\ parseFloat(stock[lastPurchaseMap[ri.ingredientId]].quantity) > 0)

\* totalCost += ingredientQuantity * unitPrice, over those rows
RECURSIVE estimatedTotal(_, _)
estimatedTotal(rows, lastPurchaseMap) ==
    IF rows = <<>> THEN Rat(0, 1)
    ELSE LET ri == rows[Len(rows)]
             lastPurchase == stock[lastPurchaseMap[ri.ingredientId]]
             unitPrice == Rat(parseFloat(lastPurchase.purchasePrice),
                              parseFloat(lastPurchase.quantity))
         IN  RatAdd(estimatedTotal(SubSeq(rows, 1, Len(rows) - 1), lastPurchaseMap),
                    RatMul(Rat(parseFloat(ri.quantity), 1), unitPrice))

\* A list that shows 0 for a recipe without price data, to try the
\* properties against.
getAllRecipesNeverNull(userId, lastPurchaseMap) ==
    [id \in {r.id : r \in {x \in recipes : x.userId = userId}} |->
        [estimatedCost |-> estimatedTotal(pricedRows(id, lastPurchaseMap),
                                          lastPurchaseMap)]]

\* RecipeService.getAllRecipes, with the first purchase of each ingredient in
\* the order of its allPurchases query: the tenant's recipes, each with its
\* estimatedCost.
getAllRecipes(userId, lastPurchaseMap) ==
    [id \in {r.id : r \in {x \in recipes : x.userId = userId}} |->
        LET rows == pricedRows(id, lastPurchaseMap)
            hasPrice == rows # <<>>
        IN  [estimatedCost |-> IF hasPrice THEN estimatedTotal(rows, lastPurchaseMap)
                               ELSE Null]]

\* GET /api/recipes
listRecipes(userId) ==
    /\ \E lastPurchaseMap \in LastPurchases(userId) :
          costs' = [of |-> "recipes", userId |-> userId,
                    lastPurchase |-> lastPurchaseMap,
                    data |-> getAllRecipes(userId, lastPurchaseMap)]
    /\ UNCHANGED <<ledger, calls, dailyInventorySnapshots, ingredientAnalytics, loop,
                   requests, console, now>>

\* MenuService.getMenuPlanById: the items of the plan, in their order.
getMenuPlanById(id, userId) ==
    [found |-> \E plan \in menuPlans : plan.id = id /\ plan.userId = userId,
     items |-> SelectSeq(menuItems, LAMBDA item : item.menuPlanId = id)]

\* The loop of calculateMenuCost over items, a failed calculation stopping
\* the loop; to try the properties against.
RECURSIVE menuBreakdownAborting(_, _, _, _)
menuBreakdownAborting(items, userId, failed, lastPurchase) ==
    IF items = <<>> \/ Len(items) \in failed THEN <<>>
    ELSE LET n == Len(items)
             item == items[n]
             recipeCost == calculateRecipeCost(item.recipeId, userId,
                                               [given |-> TRUE,
                                                value |-> parseFloat(item.servings)],
                                               lastPurchase)
         IN  Append(menuBreakdownAborting(SubSeq(items, 1, n - 1), userId, failed,
                                          lastPurchase),
                    [recipeId |-> item.recipeId,
                     servings |-> parseFloat(item.servings),
                     cost |-> recipeCost.totalCost,
                     costPerServing |-> recipeCost.costPerServing])

\* The loop of calculateMenuCost over items: one entry for each item; the
\* items in failed are those whose calculation throws.
RECURSIVE menuBreakdown(_, _, _, _)
menuBreakdown(items, userId, failed, lastPurchase) ==
    IF items = <<>> THEN <<>>
    ELSE LET n == Len(items)
             item == items[n]
             recipeCost == calculateRecipeCost(item.recipeId, userId,
                                               [given |-> TRUE,
                                                value |-> parseFloat(item.servings)],
                                               lastPurchase)
             throws == n \in failed \/ recipeCost.error # ""
         IN  Append(menuBreakdown(SubSeq(items, 1, n - 1), userId, failed, lastPurchase),
                    [recipeId |-> item.recipeId,
                     servings |-> parseFloat(item.servings),
                     cost |-> IF throws THEN Rat(0, 1) ELSE recipeCost.totalCost,
                     costPerServing |-> IF throws THEN Rat(0, 1)
                                        ELSE recipeCost.costPerServing])

\* totalCost += recipeCost.totalCost, over the entries
RECURSIVE SumCosts(_)
SumCosts(breakdown) ==
    IF breakdown = <<>> THEN Rat(0, 1)
    ELSE RatAdd(SumCosts(SubSeq(breakdown, 1, Len(breakdown) - 1)),
                breakdown[Len(breakdown)].cost)

\* totalServings += servings, over the items
RECURSIVE SumServings(_)
SumServings(items) ==
    IF items = <<>> THEN 0
    ELSE SumServings(SubSeq(items, 1, Len(items) - 1))
            + parseFloat(items[Len(items)].servings)

\* MenuService.calculateMenuCost
calculateMenuCost(menuPlanId, userId, failed, lastPurchase) ==
    LET menuPlan == getMenuPlanById(menuPlanId, userId)
        breakdown == menuBreakdown(menuPlan.items, userId, failed, lastPurchase)
        totalCost == SumCosts(breakdown)
        totalServings == SumServings(menuPlan.items)
    IN  IF ~menuPlan.found THEN [error |-> "Menu plan not found"]
        ELSE IF Len(menuPlan.items) = 0
        THEN [error |-> "", totalCost |-> Rat(0, 1), costPerServing |-> Rat(0, 1),
              totalServings |-> 0, breakdown |-> <<>>]
        ELSE [error |-> "", totalCost |-> totalCost,
              costPerServing |-> IF totalServings > 0
                                 THEN RatDiv(totalCost, Rat(totalServings, 1))
                                 ELSE Rat(0, 1),
              totalServings |-> totalServings, breakdown |-> breakdown]

\* ingredientMap of generateShoppingList: for each ingredient of the recipes
\* of the items, the sum over the items and their recipe's rows of the
\* ingredient of baseQuantity * (servings / serves).
RECURSIVE totalQuantity(_, _)
totalQuantity(items, ingredientId) ==
    IF items = <<>> THEN Rat(0, 1)
    ELSE LET menuItem == items[Len(items)]
             baseServes == (CHOOSE r \in recipes : r.id = menuItem.recipeId).serves
             multiplier == Rat(menuItem.servings, baseServes)
             recipeIngs == SelectSeq(recipeIngredients,
                                     LAMBDA ri : /\ ri.recipeId = menuItem.recipeId
                                                 /\ ri.ingredientId = ingredientId)
             adjusted == [k \in 1..Len(recipeIngs) |->
                             [subtotal |-> RatMul(Rat(parseFloat(recipeIngs[k].quantity), 1),
                                                  multiplier)]]
         IN  RatAdd(totalQuantity(SubSeq(items, 1, Len(items) - 1), ingredientId),
                    SumSubtotals(adjusted))

\* stockMap of generateShoppingList: the sum of the quantity column of the
\* tenant's lots of the ingredient, and the unit price of the first lot the
\* query returns.
stockMap(ingredientId, userId, lastPurchase) ==
    LET lots == {id \in StockIds : /\ stock[id].userId = userId
                                   /\ stock[id].ingredientId = ingredientId}
        first == lastPurchase[ingredientId]
    IN  IF lots = {} THEN [quantity |-> 0, unitPrice |-> Rat(0, 1)]
        ELSE [quantity |-> SumFn([id \in lots |-> parseFloat(stock[id].quantity)]),
              unitPrice |-> IF parseFloat(stock[first].quantity) > 0
                            THEN Rat(parseFloat(stock[first].purchasePrice),
                                     parseFloat(stock[first].quantity))
                            ELSE Rat(0, 1)]

\* Math.max(0, totalQuantity - quantity)
neededQuantity(total, quantity) ==
    IF total[1] > quantity * total[2]
    THEN Rat(total[1] - quantity * total[2], total[2])
    ELSE Rat(0, 1)

\* MenuService.generateShoppingList: the list as a function of the
\* ingredients it names, their order left out.
generateShoppingList(menuPlanId, userId, lastPurchase) ==
    LET menuPlan == getMenuPlanById(menuPlanId, userId)
        recipeIds == {menuPlan.items[i].recipeId : i \in 1..Len(menuPlan.items)}
        ingredientIds == {recipeIngredients[k].ingredientId :
                             k \in {j \in 1..Len(recipeIngredients) :
                                       recipeIngredients[j].recipeId \in recipeIds}}
    IN  IF ~menuPlan.found THEN [error |-> "Menu plan not found"]
        ELSE [error |-> "",
              list |-> [ingredientId \in ingredientIds |->
                  LET total == totalQuantity(menuPlan.items, ingredientId)
                      current == stockMap(ingredientId, userId, lastPurchase)
                      needed == neededQuantity(total, current.quantity)
                  IN  [totalQuantity |-> total,
                       currentStock |-> current.quantity,
                       needed |-> needed,
                       unitPrice |-> current.unitPrice,
                       subtotal |-> RatMul(needed, current.unitPrice),
                       isLowStock |-> current.quantity * total[2] < total[1]]]]

\* GET /:id/cost of a menu plan; the calculations of the items in failed
\* throw, and each prints its error.
getMenuCost(id, userId, failed) ==
    /\ failed \subseteq 1..Len(getMenuPlanById(id, userId).items)
    /\ \E lastPurchase \in LastPurchases(userId) :
          costs' = [of |-> "menu", id |-> id, userId |-> userId, failed |-> failed,
                    lastPurchase |-> lastPurchase,
                    data |-> calculateMenuCost(id, userId, failed, lastPurchase)]
    /\ console' = IF failed # {} /\ getMenuPlanById(id, userId).found
                  THEN catchAndLog("Error calculating cost for recipe")
                  ELSE console
    /\ UNCHANGED <<ledger, calls, dailyInventorySnapshots, ingredientAnalytics, loop,
                   requests, now>>


\* ---------------------------------------------------------- specification

Init ==
    /\ stock = <<>>
    /\ usage = EmptyBag
    /\ spoilage = EmptyBag
    /\ calls = [p \in Procs |-> Idle]
    /\ dailyInventorySnapshots = {}
    /\ ingredientAnalytics = {}
    /\ loop = [t \in Tasks |-> Idle]
    /\ requests = [r \in Readers |-> [pc |-> "idle", analytics |-> noAnalytics,
                                       data |-> noAnalytics]]
    /\ costs = NoCost
    /\ console = {}
    /\ now = 0

\* The ledger operations, each run to its end before the next begins.
Next ==
    \/ \E data \in PurchaseInputs, userId \in users :
          recordPurchase(data, userId) /\ UNCHANGED derived
    \/ \E data \in UsageInputs, userId \in users :
          recordUsage(data, userId) /\ UNCHANGED derived
    \/ \E data \in SpoilageInputs, userId \in users :
          recordSpoilage(data, userId) /\ UNCHANGED derived
    \/ \E c \in CompletionInputs :
          completeRecipe(c.recipeId, c.userId, c.options) /\ UNCHANGED derived

Spec == Init /\ [][Next]_vars

\* The ledger operations together with direct calls of batchRecordUsage.
BatchInputs ==
    {<<>>} \cup {<<u>> : u \in UsageInputs}
           \cup {<<u, v>> : u \in UsageInputs, v \in UsageInputs}

NextBatch ==
    \/ Next
    \/ \E usages \in BatchInputs, userId \in users :
          batchRecordUsage(usages, userId) /\ UNCHANGED derived

SpecBatch == Init /\ [][NextBatch]_vars

\* Purchases together with recordUsage and recordSpoilage calls that overlap.
\* The overlapping requests ask for a whole lot.
OverlapQty == {5 * Ticks}

NextOverlap ==
    \/ \E data \in PurchaseInputs, userId \in users :
          recordPurchase(data, userId) /\ UNCHANGED derived
    \/ \E p \in Procs, stockId \in RequestStockIds, quantity \in OverlapQty,
            userId \in users :
          beginCall(p, "usage", stockId, quantity, userId) /\ UNCHANGED derived
    \/ \E p \in Procs, stockId \in RequestStockIds, quantity \in OverlapQty,
            userId \in users :
          beginCall(p, "spoilage", stockId, quantity, userId) /\ UNCHANGED derived
    \/ \E p \in Procs : readTotalUsed(p) /\ UNCHANGED derived
    \/ \E p \in Procs : checkRemaining(p) /\ UNCHANGED derived
    \/ \E p \in Procs : insertRow(p) /\ UNCHANGED derived

SpecOverlap == Init /\ [][NextOverlap]_vars

\* The ledger writes with the callbacks they register, the steps and the
\* failures of the callbacks, all within one day.
AnalyticsPurchaseInputs == {PurchaseRequests[1], PurchaseRequests[4]}
AnalyticsQty == {2 * Ticks}
AnalyticsUsageInputs == [ingredientStockId : {1}, quantityUsed : AnalyticsQty]
AnalyticsSpoilageInputs == [ingredientStockId : {4}, quantity : AnalyticsQty]
AnalyticsBatchInputs ==
    {<<[ingredientStockId |-> 1, quantityUsed |-> q],
       [ingredientStockId |-> 4, quantityUsed |-> q]>> : q \in AnalyticsQty}

CallbackSteps ==
    \/ \E t \in Tasks : snapshotReadStock(t)
    \/ \E t \in Tasks : snapshotReadUsage(t)
    \/ \E t \in Tasks : snapshotReadSpoilage(t)
    \/ \E t \in Tasks : saveDailySnapshot(t)
    \/ \E t \in Tasks : analyticsReadStock(t)
    \/ \E t \in Tasks : analyticsReadUsage(t)
    \/ \E t \in Tasks : analyticsReadSpoilage(t)
    \/ \E t \in Tasks : updateIngredientAnalytics(t)

NextAnalytics ==
    \/ \E data \in AnalyticsPurchaseInputs, userId \in users :
          recordPurchase(data, userId) /\ afterPurchase(data, userId)
    \/ \E data \in AnalyticsUsageInputs, userId \in users :
          recordUsage(data, userId) /\ afterUsage(data, userId)
    \/ \E data \in AnalyticsSpoilageInputs, userId \in users :
          recordSpoilage(data, userId) /\ afterSpoilage(data, userId)
    \/ \E usages \in AnalyticsBatchInputs, userId \in users :
          batchRecordUsage(usages, userId) /\ afterBatchUsage(usages, userId)
    \/ CallbackSteps
    \/ \E t \in Tasks : callbackFails(t)

SpecAnalytics == Init /\ [][NextAnalytics]_vars

\* One step of the callback the event loop holds in place t: its next
\* awaited query, answered or failed.
runCallback(t) ==
    \/ snapshotReadStock(t)
    \/ snapshotReadUsage(t)
    \/ snapshotReadSpoilage(t)
    \/ saveDailySnapshot(t)
    \/ analyticsReadStock(t)
    \/ analyticsReadUsage(t)
    \/ analyticsReadSpoilage(t)
    \/ updateIngredientAnalytics(t)
    \/ callbackFails(t)

\* The writes to one lot with the callbacks they register, and an event
\* loop that runs every callback it holds, each awaited query answering or
\* failing in the end.
LivePurchaseInputs == {PurchaseRequests[1]}
LiveUsageInputs == [ingredientStockId : {1}, quantityUsed : AnalyticsQty]
LiveSpoilageInputs == [ingredientStockId : {1}, quantity : AnalyticsQty]
LiveBatchInputs == {<<u>> : u \in LiveUsageInputs}

NextLive ==
    \/ \E data \in LivePurchaseInputs, userId \in users :
          recordPurchase(data, userId) /\ afterPurchase(data, userId)
    \/ \E data \in LiveUsageInputs, userId \in users :
          recordUsage(data, userId) /\ afterUsage(data, userId)
    \/ \E data \in LiveSpoilageInputs, userId \in users :
          recordSpoilage(data, userId) /\ afterSpoilage(data, userId)
    \/ \E usages \in LiveBatchInputs, userId \in users :
          batchRecordUsage(usages, userId) /\ afterBatchUsage(usages, userId)
    \/ CallbackSteps
    \/ \E t \in Tasks : callbackFails(t)

SpecLive ==
    /\ Init
    /\ [][NextLive]_vars
    /\ \A t \in Tasks : WF_vars(runCallback(t))

\* Purchases of two tenants with their callbacks, over two days.
SnapshotPurchaseInputs ==
    {PurchaseRequests[1], PurchaseRequests[3], PurchaseRequests[5]}

NextSnapshots ==
    \/ \E data \in SnapshotPurchaseInputs, userId \in users :
          recordPurchase(data, userId) /\ afterPurchase(data, userId)
    \/ CallbackSteps
    \/ tick(24)

SpecSnapshots == Init /\ [][NextSnapshots]_vars

\* Purchases with their callbacks, the analytics route and the clock.
StalePurchaseInputs == {PurchaseRequests[1], PurchaseRequests[5]}
NextStale ==
    \/ \E data \in StalePurchaseInputs, userId \in users :
          recordPurchase(data, userId) /\ afterPurchase(data, userId)
    \/ CallbackSteps
    \/ \E r \in Readers, ingredientId \in IngredientIds :
          getIngredientAnalyticsSelect(r, ingredientId)
    \/ \E r \in Readers : getIngredientAnalyticsRespond(r)
    \/ \E t \in Instants : tick(t)

SpecStale == Init /\ [][NextStale]_vars

\* Purchases of two tenants with their callbacks, and the read routes of the
\* analytics.
NextReads ==
    \/ \E data \in StalePurchaseInputs, userId \in users :
          recordPurchase(data, userId) /\ afterPurchase(data, userId)
    \/ CallbackSteps
    \/ \E r \in Readers : getOverview(r)
    \/ \E r \in Readers : getCategoryDistribution(r)
    \/ \E r \in Readers, ingredientId \in IngredientIds :
          getIngredientAnalyticsSelect(r, ingredientId)
    \/ \E r \in Readers : getIngredientAnalyticsRespond(r)

SpecReads == Init /\ [][NextReads]_vars

\* The cost calculations over ledgers of lots of several dates and prices.
\* A lot of quantity 0.00 is what a purchase of less than 0.005 is stored as.
CostLot(id, userId, ingredientId, place, quantity, purchaseDate, unitPrice, supplierId) ==
    [id |-> id, userId |-> userId, ingredientId |-> ingredientId,
     storageLocationId |-> place, quantity |-> numeric2(quantity),
     purchaseDate |-> purchaseDate,
     purchasePrice |-> numeric2(unitPrice * numeric2(quantity)),
     supplierId |-> supplierId]

CostLots ==
    << CostLot(1, "u1", "flour", "pantry", 4 * Ticks, 1, 2, "acme"),
       CostLot(2, "u1", "flour", "pantry", 5 * Ticks, 3, 3, "acme"),
       CostLot(3, "u1", "flour", "fridge", 2 * Ticks, 3, 5, "acme"),
       [CostLot(4, "u1", "sugar", "pantry", 0, 2, 0, "acme")
           EXCEPT !.purchasePrice = 7 * Ticks],
       CostLot(5, "u1", "sugar", "pantry", 3 * Ticks, 1, 2, "acme"),
       CostLot(6, "u2", "salt", "cellar", 3 * Ticks, 1, 4, "globex") >>

CostLedgers ==
    {[id \in ids |-> CostLots[id]] : ids \in SUBSET (1..Len(CostLots))}

InitCost ==
    /\ stock \in CostLedgers
    /\ usage = EmptyBag
    /\ spoilage = EmptyBag
    /\ calls = [p \in Procs |-> Idle]
    /\ dailyInventorySnapshots = {}
    /\ ingredientAnalytics = {}
    /\ loop = [t \in Tasks |-> Idle]
    /\ requests = [r \in Readers |-> [pc |-> "idle", analytics |-> noAnalytics,
                                       data |-> noAnalytics]]
    /\ costs = NoCost
    /\ console = {}
    /\ now = 0

NextCost ==
    \/ \E r \in recipes, userId \in users, servings \in ServingsInputs :
          getRecipeCost(r.id, userId, servings)
    \/ \E plan \in menuPlans, userId \in users, failed \in SUBSET (1..2) :
          getMenuCost(plan.id, userId, failed)
    \/ \E userId \in users : listRecipes(userId)

SpecCost == InitCost /\ [][NextCost]_vars


\* ================================================================= claims
\* What the ledger holds against one lot, whoever asks.
UsedOf(id) ==
    SumUsageRows({r \in BagToSet(usage) : r.ingredientStockId = id}, usage)
SpoiledOf(id) ==
    SumSpoilageRows({r \in BagToSet(spoilage) : r.ingredientStockId = id}, spoilage)
ConsumedOf(id) == UsedOf(id) + SpoiledOf(id)

\* C1: after any sequence of non-overlapping recordPurchase, recordUsage,
\* recordSpoilage and completeRecipe operations, every purchase lot has
\* sum(usage.quantityUsed) + sum(spoilage.quantity) <= lot.quantity.
C1_LotNeverOverConsumed ==
    \A id \in StockIds : ConsumedOf(id) <= stock[id].quantity

\* A lot drained to exactly its quantity by a recipe completion (a usage row
\* of a quantity no usage request carries) and a spoilage.
C1_Witness ==
    \E id \in StockIds :
        /\ stock[id].quantity > 0
        /\ ConsumedOf(id) = stock[id].quantity
        /\ \E r \in BagToSet(usage) :
              /\ r.ingredientStockId = id
              /\ r.quantityUsed \notin {numeric2(q) : q \in UsageQty}
        /\ \E r \in BagToSet(spoilage) : r.ingredientStockId = id

\* ------------------------------------------------ completions, for C2 - C5
Range(seq) == {seq[i] : i \in 1..Len(seq)}

\* The orders in which the database may return the lots to a completion
\* request, its result, and its step.
OrdersOf(c) == StockOrders(CompletionIngredientIds(c.recipeId, c.userId, c.options),
                           c.userId)
ResultOf(c, order) == completeRecipeResult(c.recipeId, c.userId, c.options, order)
Completes(c) == completeRecipe(c.recipeId, c.userId, c.options)
RecipeFound(c) == \E r \in recipes : r.id = c.recipeId /\ r.userId = c.userId

\* The ingredients of a completion, each with its required quantity: the
\* entries of the request (or of the recipe) that name an ingredient of the
\* tenant.
Required(c) ==
    LET quantities == quantitiesToUse(getRecipeById(c.recipeId, c.userId), c.options)
    IN  {q \in Range(quantities) :
            \E i \in ingredients : i.id = q.ingredientId /\ i.userId = c.userId}

\* The tenant's lots of an ingredient and what remains of them in total.
LotsOf(ingredientId, userId) ==
    {id \in StockIds : stock[id].ingredientId = ingredientId /\ stock[id].userId = userId}
TotalRemaining(ingredientId, userId) ==
    SumFn([id \in LotsOf(ingredientId, userId) |-> calculateRemainingQuantity(id, userId)])
UsedOfIngredient(ingredientId, userId) ==
    SumFn([id \in LotsOf(ingredientId, userId) |-> UsedOf(id)])

\* What a list of usage operations takes from the lots of an ingredient.
PlannedFor(usageOperations, ingredientId) ==
    SumFn([k \in {j \in 1..Len(usageOperations) :
                     stock[usageOperations[j].ingredientStockId].ingredientId
                        = ingredientId} |->
              usageOperations[k].quantityUsed])

ShortIngredients(c) ==
    {q.ingredientId : q \in {x \in Required(c) :
                                x.quantity > TotalRemaining(x.ingredientId, c.userId)}}

RemainingUnchanged ==
    \A id \in StockIds :
        calculateRemainingQuantity(id, stock[id].userId)'
            = calculateRemainingQuantity(id, stock[id].userId)

\* C2: a completion without allowPartialStock in which some ingredient is
\* short returns success = false together with the shortages, hands nothing
\* to the ledger, and as a step leaves the usage and spoilage rows and every
\* lot's remaining quantity as they were.
C2_Refusal(c) == RecipeFound(c) /\ ~c.options.allowPartialStock /\ ShortIngredients(c) # {}
C2_RefusedResult ==
    \A c \in CompletionInputs : \A order \in OrdersOf(c) :
        C2_Refusal(c) =>
            LET r == ResultOf(c, order)
            IN  /\ r.status = "ok"
                /\ r.success = FALSE
                /\ {x.ingredientId : x \in Range(r.shortages)} = ShortIngredients(c)
                /\ r.written = <<>>
C2_RefusedStep ==
    ledger' # ledger =>
        \A c \in CompletionInputs :
            C2_Refusal(c) /\ Completes(c) => UNCHANGED ledger /\ RemainingUnchanged
C2_ShortageWritesNothing == []C2_RefusedResult /\ [][C2_RefusedStep]_vars

\* A refused completion that had planned usage for a satisfiable ingredient.
C2_Witness ==
    \E c \in CompletionInputs : \E order \in OrdersOf(c) :
        /\ C2_Refusal(c)
        /\ ResultOf(c, order).usageOperations # <<>>
        /\ ResultOf(c, order).success = FALSE
        /\ \E q \in Required(c) : q.ingredientId \notin ShortIngredients(c)

\* C3: a completion adds usage to a lot only if every lot of the same
\* ingredient with an earlier purchase date and a positive remaining quantity
\* is consumed in full by that completion.
C3_OldestFirstStep ==
    \A c \in CompletionInputs :
        usage' # usage /\ Completes(c) =>
            \A id, older \in StockIds :
                ( /\ UsedOf(id)' > UsedOf(id)
                  /\ stock[older].ingredientId = stock[id].ingredientId
                  /\ stock[older].userId = stock[id].userId
                  /\ stock[older].purchaseDate < stock[id].purchaseDate
                  /\ calculateRemainingQuantity(older, stock[older].userId) > 0 )
                => /\ calculateRemainingQuantity(older, stock[older].userId)' = 0
                   /\ UsedOf(older)' - UsedOf(older)
                         = calculateRemainingQuantity(older, stock[older].userId)
C3_OldestLotsFirst == [][C3_OldestFirstStep]_vars

\* Two lots of one ingredient of different dates: the older is
\* used up and the newer carries the rest of a completion's requirement.
C3_Witness ==
    \E id, older \in StockIds :
        /\ stock[older].ingredientId = stock[id].ingredientId
        /\ stock[older].purchaseDate < stock[id].purchaseDate
        /\ UsedOf(older) = stock[older].quantity
        /\ UsedOf(id) = 7 * Ticks - stock[older].quantity
        /\ UsedOf(id) > 0

C5_Partial(c) == RecipeFound(c) /\ c.options.allowPartialStock /\ ShortIngredients(c) # {}
C5_PartialResult ==
    \A c \in CompletionInputs : \A order \in OrdersOf(c) :
        C5_Partial(c) =>
            LET r == ResultOf(c, order)
            IN  /\ r.status = "ok"
                /\ r.success = TRUE
                /\ {x.ingredientId : x \in Range(r.shortages)} = ShortIngredients(c)
                /\ \A q \in Required(c) :
                      PlannedFor(r.written, q.ingredientId)
                         = IF q.ingredientId \in ShortIngredients(c)
                           THEN TotalRemaining(q.ingredientId, c.userId)
                           ELSE q.quantity
C5_PartialStepRounded ==
    \A c \in CompletionInputs :
        usage' # usage /\ C5_Partial(c) /\ Completes(c) =>
            \A q \in Required(c) :
                UsedOfIngredient(q.ingredientId, c.userId)'
                      - UsedOfIngredient(q.ingredientId, c.userId)
                   = IF q.ingredientId \in ShortIngredients(c)
                     THEN TotalRemaining(q.ingredientId, c.userId)
                     ELSE numeric2(q.quantity)
C5_PartialStepExact ==
    \A c \in CompletionInputs :
        usage' # usage /\ C5_Partial(c) /\ Completes(c) =>
            \A q \in Required(c) :
                UsedOfIngredient(q.ingredientId, c.userId)'
                      - UsedOfIngredient(q.ingredientId, c.userId)
                   = IF q.ingredientId \in ShortIngredients(c)
                     THEN TotalRemaining(q.ingredientId, c.userId)
                     ELSE q.quantity
C8_Outcome ==
    \A userId \in users : \A id \in {x \in StockIds : stock[x].userId = userId} :
        LET remaining == calculateRemainingQuantity(id, userId)
        IN  /\ \A data \in UsageInputs :
                  data.ingredientStockId = id =>
                     /\ data.quantityUsed > remaining =>
                           recordUsageResult(data, userId)
                              = "Insufficient stock available"
                     /\ data.quantityUsed = remaining =>
                           recordUsageResult(data, userId) = "ok"
            /\ \A data \in SpoilageInputs :
                  data.ingredientStockId = id =>
                     /\ data.quantity > remaining =>
                           recordSpoilageResult(data, userId)
                              = "Insufficient stock available"
                     /\ data.quantity = remaining =>
                           recordSpoilageResult(data, userId) = "ok"
C8_Step ==
    ledger' # ledger =>
        \A userId \in users : \A id \in {x \in StockIds : stock[x].userId = userId} :
            LET remaining == calculateRemainingQuantity(id, userId)
            IN  /\ \A data \in UsageInputs :
                      data.ingredientStockId = id /\ recordUsage(data, userId) =>
                         /\ data.quantityUsed <= remaining
                         /\ data.quantityUsed = remaining =>
                               calculateRemainingQuantity(id, userId)' = 0
                /\ \A data \in SpoilageInputs :
                      data.ingredientStockId = id /\ recordSpoilage(data, userId) =>
                         /\ data.quantity <= remaining
                         /\ data.quantity = remaining =>
                               calculateRemainingQuantity(id, userId)' = 0
C8_RefuseExcessAcceptExact == []C8_Outcome /\ [][C8_Step]_vars

\* A lot emptied by one spoilage request for exactly its remaining
\* quantity, so that any further request on it is refused.
C8_Witness ==
    \E id \in StockIds :
        /\ stock[id].quantity \in UsageQty
        /\ newSpoilage(id, stock[id].quantity) \in BagToSet(spoilage)
        /\ UsedOf(id) = 0
        /\ calculateRemainingQuantity(id, stock[id].userId) = 0
        /\ \A data \in UsageInputs :
              data.ingredientStockId = id =>
                 recordUsageResult(data, stock[id].userId)
                    = "Insufficient stock available"

\* C6 (as amended): for every lot and every ledger state
\* calculateRemainingQuantity returns max(0, quantity - usage - spoilage),
\* never a negative value; for a lot just created by recordPurchase it
\* returns the purchased quantity rounded to two decimals.
C6_Floor ==
    \A id \in StockIds :
        /\ calculateRemainingQuantity(id, stock[id].userId)
              = Max(0, stock[id].quantity - UsedOf(id) - SpoiledOf(id))
        /\ calculateRemainingQuantity(id, stock[id].userId) >= 0
C6_RoundTripRounded ==
    \A data \in PurchaseInputs, userId \in users :
        stock' # stock /\ recordPurchase(data, userId) =>
            calculateRemainingQuantity(LotIdOf(data), userId)' = numeric2(data.quantity)
C6_RemainingFlooredRounded == []C6_Floor /\ [][C6_RoundTripRounded]_vars

\* A lot bought as 2.5 hundredths and held as 3, next to a lot from which
\* overlapping calls took more than it held and whose remaining quantity
\* is 0.
C6_Witness ==
    \E id, fresh \in StockIds :
        /\ UsedOf(id) + SpoiledOf(id) > stock[id].quantity
        /\ calculateRemainingQuantity(id, stock[id].userId) = 0
        /\ ConsumedOf(fresh) = 0
        /\ stock[fresh].quantity = numeric2(2 * Ticks + 1)
        /\ stock[fresh].quantity # 2 * Ticks + 1
        /\ calculateRemainingQuantity(fresh, stock[fresh].userId)
              = stock[fresh].quantity

\* C6 as stated: ... for a lot just created by recordPurchase it returns the
\* purchased quantity.
C6_RoundTripExact ==
    \A data \in PurchaseInputs, userId \in users :
        stock' # stock /\ recordPurchase(data, userId) =>
            calculateRemainingQuantity(LotIdOf(data), userId)' = data.quantity
C6_RemainingFlooredExact == []C6_Floor /\ [][C6_RoundTripExact]_vars

\* C7: in overlapping calls the sufficiency check of a call is decided on
\* the sums the call has read, and once passed the call's insert adds its
\* row whatever the ledger holds by then; so two calls against one lot can
\* both pass the check before either inserts, and the lot's usage plus
\* spoilage comes to exceed its quantity.
C7_CheckThenInsert ==
    \A p \in Procs :
        /\ calls[p].pc = "readSpoiled" /\ calls'[p].pc = "insert" =>
              calls[p].quantity
                 <= Max(0, stock[calls[p].stockId].quantity - calls[p].totalUsed
                              - TotalSpoiled(calls[p].stockId, calls[p].userId))
        /\ calls[p].pc = "insert" /\ calls'[p] # calls[p] =>
              /\ calls'[p] = Idle
              /\ \A id \in {calls[p].stockId} :
                    ConsumedOf(id)' = ConsumedOf(id) + numeric2(calls[p].quantity)
C7_OverlapOverConsumes == [][C7_CheckThenInsert]_vars

\* A lot holding more usage and spoilage than was purchased, written by two
\* calls that have both returned.
C7_Witness ==
    \E id \in StockIds :
        /\ UsedOf(id) > 0
        /\ SpoiledOf(id) > 0
        /\ ConsumedOf(id) > stock[id].quantity
        /\ \A p \in Procs : calls[p] = Idle

\* C9: batchRecordUsage writes every usage event of the batch or none, and
\* none when the batch's total against some lot exceeds what remains of it.
BatchTotal(usages, stockId) ==
    SumFn([k \in {j \in 1..Len(usages) : usages[j].ingredientStockId = stockId} |->
              usages[k].quantityUsed])
C9_Step ==
    \A usages \in BatchInputs, userId \in users :
        batchRecordUsage(usages, userId) =>
            /\ usage' = usage \/ usage' = usage (+) usageRecords(usages)
            /\ (\E id \in StockIds :
                   /\ stock[id].userId = userId
                   /\ BatchTotal(usages, id) > calculateRemainingQuantity(id, userId))
               => usage' = usage
C9_BatchAllOrNone == [][C9_Step]_vars

\* C10: getAllStock reports per ingredient the sum of the remaining
\* quantities of its lots, and per listed storage location that sum over
\* the lots stored there.
C10_StockSummaryIsSum ==
    \A userId \in users :
        LET summaries == getAllStock(userId)
        IN  \A ing \in DOMAIN summaries :
               /\ summaries[ing].totalStock = TotalRemaining(ing, userId)
               /\ \A loc \in DOMAIN summaries[ing].locations :
                     summaries[ing].locations[loc]
                        = SumFn([id \in {x \in LotsOf(ing, userId) :
                                            stock[x].storageLocationId = loc} |->
                                    calculateRemainingQuantity(id, userId)])

\* C11: for every set of requested lot ids (any of the lots of the ledger,
\* with or without the ids of lots that do not exist) and every tenant, the
\* map of batchCalculateRemainingQuantities has an entry exactly for the
\* requested lots the tenant owns, and each entry is the value
\* calculateRemainingQuantity returns for that lot.
C11_BatchEqualsSingle ==
    \A userId \in users, existing \in SUBSET StockIds,
       missing \in {{}, RequestStockIds \ StockIds} :
        LET stockIds == existing \cup missing
            result == batchCalculateRemainingQuantities(stockIds, userId)
        IN  /\ DOMAIN result = {id \in stockIds : StockFound(id, userId)}
            /\ \A id \in DOMAIN result :
                  result[id] = calculateRemainingQuantity(id, userId)

\* A ledger with a partly consumed lot of one tenant and a lot of the other:
\* a request naming both and a lot that does not exist gets one entry, less
\* than the lot's quantity.
C11_Witness ==
    \E a \in StockIds, b \in StockIds, c \in RequestStockIds \ StockIds :
        /\ stock[a].userId = "u1"
        /\ stock[b].userId = "u2"
        /\ UsedOf(a) > 0
        /\ SpoiledOf(a) > 0
        /\ LET result == batchCalculateRemainingQuantities({a, b, c}, "u1")
           IN  /\ DOMAIN result = {a}
               /\ result[a] > 0
               /\ result[a] < stock[a].quantity

\* C12: getAllStock has one summary for each ingredient of the tenant and
\* for nothing else; an ingredient with no lots, or whose lots all have
\* nothing remaining, is reported with totalStock 0.00 and no location.
C12_EveryIngredientListed ==
    \A userId \in users :
        LET summaries == getAllStock(userId)
        IN  /\ DOMAIN summaries = {i.id : i \in {x \in ingredients : x.userId = userId}}
            /\ \A ing \in DOMAIN summaries :
                  (\A id \in LotsOf(ing, userId) :
                      calculateRemainingQuantity(id, userId) = 0)
                  => /\ summaries[ing].totalStock = 0
                     /\ DOMAIN summaries[ing].locations = {}

\* One ingredient of the tenant has a lot that is used up, another has no
\* lot at all, a third lot belongs to the other tenant.
C12_Witness ==
    /\ \E id \in LotsOf("flour", "u1") : UsedOf(id) = stock[id].quantity
    /\ \A id \in LotsOf("flour", "u1") : calculateRemainingQuantity(id, "u1") = 0
    /\ LotsOf("sugar", "u1") = {}
    /\ LotsOf("salt", "u2") # {}
    /\ getAllStock("u1")["flour"] = [totalStock |-> 0, locations |-> <<>>]
    /\ getAllStock("u1")["sugar"] = [totalStock |-> 0, locations |-> <<>>]

\* C13: recordPurchase throws a not-found error and creates no lot when the
\* ingredient, the storage location or the supplier it names is no row of
\* the tenant; recordUsage and recordSpoilage throw 'Ingredient stock not
\* found' and write nothing when the lot they name is no lot of the tenant.
C13_ForeignPurchase(data, userId) ==
    \/ [id |-> data.ingredientId, userId |-> userId] \notin ingredients
    \/ [id |-> data.storageLocationId, userId |-> userId] \notin storageLocations
    \/ [id |-> data.supplierId, userId |-> userId] \notin suppliers
C13_ForeignLot(stockId, userId) ==
    stockId \notin StockIds \/ stock[stockId].userId # userId
C13_Outcome ==
    \A userId \in users :
        /\ \A data \in PurchaseInputs :
              C13_ForeignPurchase(data, userId) =>
                 recordPurchaseResult(data, userId)
                    \in {"Ingredient not found", "Storage location not found",
                         "Supplier not found"}
        /\ \A data \in UsageInputs :
              C13_ForeignLot(data.ingredientStockId, userId) =>
                 recordUsageResult(data, userId) = "Ingredient stock not found"
        /\ \A data \in SpoilageInputs :
              C13_ForeignLot(data.ingredientStockId, userId) =>
                 recordSpoilageResult(data, userId) = "Ingredient stock not found"
C13_Step ==
    ledger' # ledger =>
        \A userId \in users :
            /\ \A data \in PurchaseInputs :
                  C13_ForeignPurchase(data, userId) => ~recordPurchase(data, userId)
            /\ \A data \in UsageInputs :
                  C13_ForeignLot(data.ingredientStockId, userId)
                     => ~recordUsage(data, userId)
            /\ \A data \in SpoilageInputs :
                  C13_ForeignLot(data.ingredientStockId, userId)
                     => ~recordSpoilage(data, userId)
C13_NotFoundWritesNothing == []C13_Outcome /\ [][C13_Step]_vars

\* Each tenant holds a lot with remaining stock, so that a request of one
\* tenant can name a lot of the other, and a lot that does not exist; the
\* ledger holds no lot of an ingredient, place or supplier foreign to its
\* owner and no usage or spoilage row.
C13_Witness ==
    /\ \E a, b \in StockIds : stock[a].userId = "u1" /\ stock[b].userId = "u2"
    /\ \E data \in UsageInputs :
          /\ data.ingredientStockId \in StockIds
          /\ stock[data.ingredientStockId].userId = "u1"
          /\ recordUsageResult(data, "u1") = "ok"
          /\ recordUsageResult(data, "u2") = "Ingredient stock not found"
          /\ recordSpoilageResult([ingredientStockId |-> data.ingredientStockId,
                                   quantity |-> data.quantityUsed], "u2")
                = "Ingredient stock not found"
    /\ \E data \in UsageInputs :
          /\ data.ingredientStockId \notin StockIds
          /\ recordUsageResult(data, "u1") = "Ingredient stock not found"
    /\ \A id \in StockIds :
          ~C13_ForeignPurchase([ingredientId |-> stock[id].ingredientId,
                                storageLocationId |-> stock[id].storageLocationId,
                                supplierId |-> stock[id].supplierId], stock[id].userId)
    /\ EventCount = 0

\* C14: a ledger operation issued with one tenant's id leaves the result of
\* every query of a stock read issued with another tenant's id as it was
\* (the reads compute their answers from those results alone), and a read
\* issued with a tenant's id returns nothing of another tenant's lots: for
\* such a lot calculateRemainingQuantity answers as for a lot that does not
\* exist, and getAllStock and batchGetIngredientStock list only the tenant's
\* own ingredients, places and lots.
\* What the queries of the three reads return for a tenant: the answer of
\* calculateRemainingQuantity for every lot id, the grouped rows of
\* getAllStock, and for batchGetIngredientStock the lots in each order the
\* database may return them together with their remaining quantities.
C14_Reads(userId) ==
    << [id \in RequestStockIds |-> calculateRemainingQuantity(id, userId)],
       stockWithRemaining(userId),
       [ingredientIds \in SUBSET IngredientIds |->
           {<<order, [i \in 1..Len(order) |-> stock[order[i]]],
              batchCalculateRemainingQuantities({order[i] : i \in 1..Len(order)},
                                                userId)>> :
               order \in StockOrders(ingredientIds, userId)}] >>
C14_Acts(userId) ==
    \/ \E data \in PurchaseInputs : recordPurchase(data, userId)
    \/ \E data \in UsageInputs : recordUsage(data, userId)
    \/ \E data \in SpoilageInputs : recordSpoilage(data, userId)
    \/ \E c \in CompletionInputs :
          c.userId = userId /\ completeRecipe(c.recipeId, c.userId, c.options)
C14_Step ==
    ledger' # ledger =>
        \A a \in users :
            C14_Acts(a) => \A b \in users \ {a} : C14_Reads(b)' = C14_Reads(b)
C14_OwnRowsOnly ==
    \A b \in users :
        /\ \A id \in StockIds :
              stock[id].userId # b => calculateRemainingQuantity(id, b) = 0
        /\ LET summaries == getAllStock(b)
           IN  \A ing \in DOMAIN summaries :
                  /\ [id |-> ing, userId |-> b] \in ingredients
                  /\ \A loc \in DOMAIN summaries[ing].locations :
                        [id |-> loc, userId |-> b] \in storageLocations
        /\ \A ingredientIds \in SUBSET IngredientIds :
              \A order \in StockOrders(ingredientIds, b) :
                 LET result == batchGetIngredientStock(ingredientIds, b, order)
                 IN  \A ing \in DOMAIN result : \A i \in 1..Len(result[ing]) :
                        /\ result[ing][i].id \in StockIds
                        /\ stock[result[ing][i].id].userId = b
C14_TenantIsolation == []C14_OwnRowsOnly /\ [][C14_Step]_vars

\* Both tenants hold a partly consumed lot, and each tenant's summary shows
\* its own lot's remainder.
C14_Witness ==
    \E a, b \in StockIds :
        /\ stock[a].userId = "u1" /\ stock[b].userId = "u2"
        /\ UsedOf(a) > 0 /\ ConsumedOf(b) > 0
        /\ calculateRemainingQuantity(a, "u2") = 0
        /\ calculateRemainingQuantity(a, "u1") = stock[a].quantity - UsedOf(a)
        /\ calculateRemainingQuantity(a, "u1") > 0
        /\ getAllStock("u2")[stock[b].ingredientId].totalStock
              = stock[b].quantity - ConsumedOf(b)
        /\ getAllStock("u1")[stock[a].ingredientId].totalStock
              = stock[a].quantity - UsedOf(a)

\* ---------------------------------------------------------------- C15
\* C15: a failure of the recomputation that recordPurchase, recordUsage,
\* recordSpoilage or batchRecordUsage registered never propagates.  A
\* callback is registered only by a step that committed its write and
\* returned the normal result; the step in which a query of the callback
\* fails only prints the callback's message and ends the callback: it changes
\* no ledger row, no derived row and no handler, and nothing is ever thrown
\* out of a callback.  Rows once written stay in the ledger.
C15_Messages ==
    {"Error updating analytics after purchase:",
     "Error updating analytics after usage:",
     "Error updating analytics after spoilage:",
     "Error updating analytics after batch usage:"}

C15_Committed ==
    /\ \A id \in DOMAIN stock : id \in DOMAIN stock' /\ stock'[id] = stock[id]
    /\ usage \sqsubseteq usage'
    /\ spoilage \sqsubseteq spoilage'

C15_Step ==
    /\ C15_Committed
    /\ (\E t \in Tasks : loop[t] = Idle /\ loop'[t] # Idle)
          => /\ ledger' # ledger
             /\ console' = console
    /\ console' # console
          => /\ ledger' = ledger
             /\ UNCHANGED <<calls, requests, dailyInventorySnapshots, ingredientAnalytics>>
             /\ \E t \in Tasks :
                   /\ loop[t] # Idle
                   /\ loop[t].message \in C15_Messages
                   /\ loop' = [loop EXCEPT ![t] = Idle]
                   /\ console' = console \cup {loop[t].message}

C16_OneRowPerKey ==
    /\ \A a, b \in dailyInventorySnapshots :
          a.userId = b.userId /\ a.snapshotDate = b.snapshotDate => a = b
    /\ \A a, b \in ingredientAnalytics :
          a.userId = b.userId /\ a.ingredientId = b.ingredientId => a = b

C16_SnapshotKeys(rows) == {<<r.userId, r.snapshotDate>> : r \in rows}

C16_Step ==
    dailyInventorySnapshots' # dailyInventorySnapshots =>
        \E t \in Tasks :
           /\ loop[t].pc = "snapshotUpsert"
           /\ LET key == <<loop[t].userId, loop[t].today>>
                  others(rows) ==
                      {r \in rows : <<r.userId, r.snapshotDate>> # key}
              IN  /\ others(dailyInventorySnapshots') = others(dailyInventorySnapshots)
                  /\ C16_SnapshotKeys(dailyInventorySnapshots')
                        = C16_SnapshotKeys(dailyInventorySnapshots) \cup {key}
                  /\ Cardinality(dailyInventorySnapshots')
                        = IF key \in C16_SnapshotKeys(dailyInventorySnapshots)
                          THEN Cardinality(dailyInventorySnapshots)
                          ELSE Cardinality(dailyInventorySnapshots) + 1

C16_UpsertOverwrites == []C16_OneRowPerKey /\ [][C16_Step]_vars

\* Two purchases of one tenant on one day have run their callbacks to the
\* end, saveDailySnapshot twice, and the tenant has one row for the day, next
\* to the row of the other tenant.
C16_Witness ==
    /\ now = 0
    /\ \A t \in Tasks : loop[t] = Idle
    /\ {id \in DOMAIN stock : stock[id].userId = "u1"} = {1, 3}
    /\ Cardinality({r \in dailyInventorySnapshots : r.userId = "u1"}) = 1
    /\ \E r \in dailyInventorySnapshots : r.userId = "u1" /\ r.totalPurchases = 2
    /\ \E r \in ingredientAnalytics : r.userId = "u1" /\ r.totalPurchases = 2

\* ---------------------------------------------------------------- C17
\* The rows the recomputations would write from the ledger as it is.
C17_CurrentSnapshot(userId) ==
    LET allStock == StockRows({id \in StockIds : stock[id].userId = userId})
    IN  snapshotRow(userId, Date(now),
                    calculateOverallStatistics(
                        allStock, allUsage(DOMAIN allStock),
                        allSpoilage(DOMAIN allStock),
                        Cardinality({i \in ingredients : i.userId = userId})))

C17_CurrentAnalytics(userId, ingredientId) ==
    LET stockEntries == StockRows({id \in StockIds :
                                      /\ stock[id].ingredientId = ingredientId
                                      /\ stock[id].userId = userId})
    IN  analyticsRow(userId, ingredientId,
                     calculateIngredientAnalytics(
                         stockEntries, allUsage(DOMAIN stockEntries),
                         allSpoilage(DOMAIN stockEntries)))

\* No callback is waiting or running, and none has failed.
C17_Quiescent ==
    /\ \A t \in Tasks : loop[t] = Idle
    /\ \A p \in Procs : calls[p] = Idle
    /\ console = {}

\* C17: once no ledger write and no recomputation is in progress, and none
\* has failed, today's snapshot row of a tenant and the analytics row of an
\* ingredient hold the aggregates of the ledger as it is then.
C17_QuiescentRowsCurrent ==
    C17_Quiescent =>
        /\ \A row \in dailyInventorySnapshots :
              row.snapshotDate = Date(now) =>
                 [row EXCEPT !.updatedAt = now] = C17_CurrentSnapshot(row.userId)
        /\ \A row \in ingredientAnalytics :
              [row EXCEPT !.updatedAt = now]
                 = C17_CurrentAnalytics(row.userId, row.ingredientId)

\* ---------------------------------------------------------------- C18
\* The callback a stale read registers.
C18_Refresh == "Error refreshing stale analytics in background:"

\* The step that produces the response: it sends the row it read as it read
\* it and writes no table; a row older than one hour makes it register one
\* callback, which has not begun, for the ingredient; a row at most one hour
\* old makes it register none.
C18_Step ==
    \A r \in Readers :
       requests[r].pc = "selected" /\ requests'[r].pc = "responded" =>
          LET analytics == requests[r].analytics
          IN  /\ requests'[r].data = analytics
              /\ UNCHANGED <<ledger, dailyInventorySnapshots, ingredientAnalytics>>
              /\ analytics.updatedAt < now - OneHour =>
                    \E t \in Tasks :
                       /\ loop[t] = Idle
                       /\ loop'[t].pc = "updateIngredientAnalytics"
                       /\ loop'[t].ingredientIds = {analytics.ingredientId}
                       /\ loop'[t].message = C18_Refresh
                       /\ \A s \in Tasks \ {t} : loop'[s] = loop[s]
              /\ analytics.updatedAt >= now - OneHour => loop' = loop

\* C18: a read that finds a row older than one hour responds with that row
\* unchanged and triggers a recomputation that runs after the response; a
\* read that finds a row at most one hour old triggers none.  The
\* recomputation runs: the callback of a stale read does not end in its catch
\* clause before it has computed anything.
C18_StaleWhileRevalidate ==
    /\ [](C18_Refresh \notin console)
    /\ [][C18_Step]_vars

\* ---------------------------------------------------------------- C19
\* purchasePrice / quantity of a lot, 0 for no lot or a lot of quantity 0.
C19_UnitPrice(lot) ==
    IF lot = NoLot THEN Rat(0, 1)
    ELSE IF stock[lot].quantity = 0 THEN Rat(0, 1)
    ELSE Rat(stock[lot].purchasePrice, stock[lot].quantity)

\* The sum over the rows of the recipe of
\* baseQuantity * (servings / serves) * unitPrice.
RECURSIVE C19_Sum(_, _, _, _)
C19_Sum(rows, servings, serves, lastPurchase) ==
    IF rows = {} THEN Rat(0, 1)
    ELSE LET i == CHOOSE x \in rows : TRUE
             row == recipeIngredients[i]
         IN  RatAdd(RatMul(RatMul(Rat(row.quantity, 1), Rat(servings, serves)),
                           C19_UnitPrice(lastPurchase[row.ingredientId])),
                    C19_Sum(rows \ {i}, servings, serves, lastPurchase))

\* The lot priced is a lot of the ingredient with the latest purchase date.
C19_LatestLot(lastPurchase, userId) ==
    \A i \in IngredientIds :
       LET lots == {id \in StockIds : /\ stock[id].ingredientId = i
                                      /\ stock[id].userId = userId}
       IN  IF lots = {} THEN lastPurchase[i] = NoLot
           ELSE /\ lastPurchase[i] \in lots
                /\ \A id \in lots :
                      stock[id].purchaseDate <= stock[lastPurchase[i]].purchaseDate

C19_Answer(servingsAsked) ==
    costs.of = "recipe" /\ costs.data.error = "" /\ costs.servings \in servingsAsked =>
        LET recipe == CHOOSE r \in recipes : r.id = costs.id /\ r.userId = costs.userId
            servings == IF costs.servings.given THEN costs.servings.value
                        ELSE recipe.serves
            rows == {i \in 1..Len(recipeIngredients) :
                        recipeIngredients[i].recipeId = costs.id}
            totalCost == C19_Sum(rows, servings, recipe.serves, costs.lastPurchase)
        IN  /\ C19_LatestLot(costs.lastPurchase, costs.userId)
            /\ costs.data.totalCost = totalCost
            /\ servings # 0 =>
                  costs.data.costPerServing = RatDiv(totalCost, Rat(servings, 1))

\* C19: calculateRecipeCost(recipe, servings) returns totalCost equal to the
\* sum over the recipe's ingredients of baseQuantity * (servings / serves) *
\* unitPrice, with unitPrice the purchasePrice / quantity of the ingredient's
\* lot of the latest purchase date, 0 without a lot or for a lot of quantity
\* 0, and costPerServing = totalCost / servings; for every servings asked.
C19_CostScalesWithServings == C19_Answer(ServingsInputs)

\* The same for the servings that are absent or not 0.
C19_CostScalesWithPositiveServings ==
    C19_Answer({s \in ServingsInputs : ~s.given \/ s.value # 0})

\* ---------------------------------------------------------------- C20
\* What calculateRecipeCost answers for a line-item.
C20_RecipeCost(item) ==
    calculateRecipeCost(item.recipeId, costs.userId,
                        [given |-> TRUE, value |-> item.servings], costs.lastPurchase)

\* The sum of calculateRecipeCost(...).totalCost over the given line-items.
RECURSIVE C20_Sum(_, _)
C20_Sum(items, priced) ==
    IF priced = {} THEN Rat(0, 1)
    ELSE LET k == CHOOSE x \in priced : TRUE
         IN  RatAdd(C20_RecipeCost(items[k]).totalCost, C20_Sum(items, priced \ {k}))

\* C20: calculateMenuCost returns a totalCost equal to the sum over the
\* line-items of calculateRecipeCost(item.recipe, item.servings).totalCost;
\* a line-item whose pricing fails is in the breakdown with cost 0 and adds 0
\* to the total, and every other line-item is priced, in the menu's order.
C20_CatchAndZero ==
    costs.of = "menu" /\ costs.data.error = "" =>
        LET items == SelectSeq(menuItems, LAMBDA item : item.menuPlanId = costs.id)
            failed == {k \in 1..Len(items) :
                          k \in costs.failed \/ C20_RecipeCost(items[k]).error # ""}
            breakdown == costs.data.breakdown
        IN  /\ Len(breakdown) = Len(items)
            /\ \A k \in 1..Len(items) :
                  /\ breakdown[k].recipeId = items[k].recipeId
                  /\ breakdown[k].servings = items[k].servings
                  /\ breakdown[k].cost = IF k \in failed THEN Rat(0, 1)
                                         ELSE C20_RecipeCost(items[k]).totalCost
            /\ costs.data.totalCost = C20_Sum(items, (1..Len(items)) \ failed)

\* The pricing of the first line-item of a menu failed and the second one is
\* priced and makes the total.
C20_Witness ==
    /\ costs.of = "menu"
    /\ costs.data.error = ""
    /\ costs.failed = {1}
    /\ Len(costs.data.breakdown) = 2
    /\ costs.data.breakdown[1].cost = Rat(0, 1)
    /\ costs.data.breakdown[2].cost # Rat(0, 1)
    /\ costs.data.totalCost = costs.data.breakdown[2].cost
    /\ "Error calculating cost for recipe" \in console

\* ---------------------------------------------------------------- C21
\* The ingredients of a recipe.
C21_Ingredients(recipeId) ==
    {recipeIngredients[i].ingredientId :
        i \in {k \in 1..Len(recipeIngredients) : recipeIngredients[k].recipeId = recipeId}}

\* The list answers, for each recipe, what calculateRecipeCost answers at the
\* base servings from the same last purchases when hasData holds of the
\* recipe, and null when it does not.
C21_Answer(hasData(_)) ==
    costs.of = "recipes" =>
        \A id \in DOMAIN costs.data :
           costs.data[id].estimatedCost =
              IF hasData(id)
              THEN calculateRecipeCost(id, costs.userId, [given |-> FALSE, value |-> 0],
                                       costs.lastPurchase).totalCost
              ELSE Null

\* C21 as stated: estimatedCost equals calculateRecipeCost(recipe).totalCost
\* at the base servings when an ingredient of the recipe has a lot of
\* positive quantity, and is null exactly when none has.
C21_EstimateEqualsCostAnyLot ==
    C21_Answer(LAMBDA id :
                  \E lot \in StockIds :
                     /\ stock[lot].userId = costs.userId
                     /\ stock[lot].ingredientId \in C21_Ingredients(id)
                     /\ stock[lot].quantity > 0)

\* C21, amended: estimatedCost equals calculateRecipeCost(recipe).totalCost
\* at the base servings, priced from the same last purchases, when the last
\* purchase of an ingredient of the recipe has positive quantity, and is
\* null exactly when that of none has.
C21_EstimateEqualsCostLastLot ==
    C21_Answer(LAMBDA id :
                  \E i \in C21_Ingredients(id) :
                     /\ costs.lastPurchase[i] # NoLot
                     /\ stock[costs.lastPurchase[i]].quantity > 0)

\* The list of a tenant holds a recipe with a cost above 0 and a recipe
\* without price data whose ingredient has an earlier lot of positive
\* quantity.
C21_Witness ==
    /\ costs.of = "recipes"
    /\ costs.userId = "u1"
    /\ costs.data["bread"].estimatedCost # Null
    /\ costs.data["bread"].estimatedCost # Rat(0, 1)
    /\ costs.data["syrup"].estimatedCost = Null
    /\ {4, 5} \subseteq StockIds

\* ---------------------------------------------------------------- C22
\* What calculateOverallStatistics answers for a tenant from the ledger.
C22_Statistics(userId) ==
    LET allStock == StockRows({id \in StockIds : stock[id].userId = userId})
    IN  calculateOverallStatistics(allStock, allUsage(DOMAIN allStock),
                                   allSpoilage(DOMAIN allStock),
                                   Cardinality({i \in ingredients : i.userId = userId}))

\* The remaining quantity of the tenant's lots of an ingredient, in total.
C22_Remaining(ingredientId, userId) ==
    SumFn([id \in {x \in StockIds : /\ stock[x].ingredientId = ingredientId
                                    /\ stock[x].userId = userId} |->
              Max(0, stock[id].quantity - TotalUsed(id, userId)
                        - TotalSpoiled(id, userId))])

\* The ingredients of the tenant, among those given, whose remaining quantity
\* is below their threshold.
C22_Low(ingredientIds, userId) ==
    {i \in ingredientIds :
        /\ [id |-> i, userId |-> userId] \in ingredients
        /\ restockThreshold[i] # NullThreshold
        /\ C22_Remaining(i, userId) < restockThreshold[i]}

\* C22: lowStockCount is the number of the tenant's ingredients whose
\* remaining quantity, summed over their lots, is below their
\* restockThreshold; an ingredient without lots has remaining 0.
C22_LowStockCount ==
    \A userId \in users :
       C22_Statistics(userId).lowStockCount = Cardinality(C22_Low(IngredientIds, userId))

\* The same count over the ingredients of which the tenant has a lot.
C22_LowStockCountOfStocked ==
    \A userId \in users :
       C22_Statistics(userId).lowStockCount =
          Cardinality(C22_Low({stock[id].ingredientId : id \in StockIds}, userId))

\* ---------------------------------------------------------------- C23
\* The days on which the analytics of an ingredient are computed: all lots
\* within the 90 days, the earlier lots outside them, all lots outside them.
C23_Days == {3, 92, 94}

\* The tenant's lots of the ingredient bought on or before a date.
C23_LotsUntil(ingredientId, userId, date) ==
    {id \in StockIds : /\ stock[id].ingredientId = ingredientId
                       /\ stock[id].userId = userId
                       /\ stock[id].purchaseDate <= date}

\* Every point of the trend of the given days carries the purchase value and
\* the remaining value of the ingredient's lots bought on or before its date.
C23_Cumulative(days) ==
    \A i \in ingredients, today \in days :
       LET stockEntries == StockRows({id \in StockIds :
                                         /\ stock[id].ingredientId = i.id
                                         /\ stock[id].userId = i.userId})
           trend == stockValueTrend(stockEntries, allUsage(DOMAIN stockEntries),
                                    allSpoilage(DOMAIN stockEntries), today)
       IN  \A point \in trend :
              point.date >= today - TrendDays =>
                 LET lots == C23_LotsUntil(i.id, i.userId, point.date)
                 IN  /\ point.totalValue =
                           SumFn([id \in lots |-> stock[id].purchasePrice])
                     /\ point.remainingValue =
                           SumFn([id \in lots |->
                                     Min(stock[id].quantity,
                                         Max(0, stock[id].quantity
                                                   - TotalUsed(id, i.userId)
                                                   - TotalSpoiled(id, i.userId)))
                                        * (stock[id].purchasePrice
                                              \div stock[id].quantity)])

\* C23: every stockValueTrend point dated within the 90-day window carries
\* the cumulative total value and cumulative remaining value of all the
\* ingredient's lots purchased on or before that point's date.
C23_TrendIsCumulative == C23_Cumulative(C23_Days)

\* The same on a day when no lot of the ledger is older than 90 days.
C23_TrendIsCumulativeInWindow == C23_Cumulative({3})

\* ---------------------------------------------------------------- C24
\* Every lot of the ledger is in the next ledger with the same row, every
\* usage row and every spoilage row is in the next ledger as often as before:
\* a step adds rows or leaves the ledger as it is.
C24_Step ==
    /\ \A id \in DOMAIN stock : id \in DOMAIN stock' /\ stock'[id] = stock[id]
    /\ \A row \in BagToSet(usage) :
          CopiesIn(row, usage') >= CopiesIn(row, usage)
    /\ \A row \in BagToSet(spoilage) :
          CopiesIn(row, spoilage') >= CopiesIn(row, spoilage)

\* A lot carries the quantity and the price of the purchase request that
\* created it, as the column stores them.
C24_LotAsPurchased ==
    \A id \in DOMAIN stock :
       /\ stock[id].quantity = numeric2(PurchaseRequests[id].quantity)
       /\ stock[id].purchasePrice = numeric2(PurchaseRequests[id].purchasePrice)

\* C24: recordPurchase, recordUsage, recordSpoilage, batchRecordUsage and
\* completeRecipe never modify or delete an existing purchase lot, usage
\* event or spoilage event; each only appends rows, and a lot's quantity and
\* purchase price are the same in every state after its creation.
C24_LedgerAppendOnly == []C24_LotAsPurchased /\ [][C24_Step]_vars

\* A lot is used up by usage and spoilage rows and its row still carries the
\* quantity purchased.
C24_Witness ==
    \E id \in DOMAIN stock :
       /\ stock[id].quantity > 0
       /\ BagToSet(usage) # {}
       /\ BagToSet(spoilage) # {}
       /\ TotalUsed(id, stock[id].userId) + TotalSpoiled(id, stock[id].userId)
             = stock[id].quantity

\* ---------------------------------------------------------------- C25
\* The ingredients of the rows a step adds to the ledger.
C25_Affected ==
    {stock'[id].ingredientId : id \in DOMAIN stock' \ DOMAIN stock}
       \cup {stock[r.ingredientStockId].ingredientId :
                r \in {x \in BagToSet(usage') :
                          CopiesIn(x, usage') > CopiesIn(x, usage)}}
       \cup {stock[r.ingredientStockId].ingredientId :
                r \in {x \in BagToSet(spoilage') :
                          CopiesIn(x, spoilage') > CopiesIn(x, spoilage)}}

\* A step that adds rows to the ledger hands the event loop one callback,
\* which has read nothing yet and names the ingredients of the added rows;
\* no other step hands it one.
C25_Triggered ==
    /\ ledger' # ledger
          => \E t \in Tasks :
                /\ loop[t] = Idle
                /\ loop'[t] # Idle
                /\ loop'[t].pc = "saveDailySnapshot"
                /\ loop'[t].rows = <<>>
                /\ loop'[t].ingredientIds = C25_Affected
                /\ \A id \in DOMAIN stock' \ DOMAIN stock :
                      loop'[t].userId = stock'[id].userId
                /\ \A r \in BagToSet(usage') \cup BagToSet(spoilage') :
                      (CopiesIn(r, usage') > CopiesIn(r, usage)
                          \/ CopiesIn(r, spoilage') > CopiesIn(r, spoilage))
                         => loop'[t].userId = stock[r.ingredientStockId].userId
    /\ (\E t \in Tasks : loop[t] = Idle /\ loop'[t] # Idle) => ledger' # ledger

\* What a callback reads is the ledger of the state it reads in.
C25_ReadsCommitted ==
    \A t \in Tasks :
       (loop[t] # Idle /\ loop'[t] # Idle /\ loop'[t].rows # loop[t].rows
           /\ loop'[t].rows # <<>>)
          => /\ DOMAIN loop'[t].rows \subseteq StockIds
             /\ \A id \in DOMAIN loop'[t].rows :
                   /\ loop'[t].rows[id].quantity = stock[id].quantity
                   /\ stock[id].userId = loop[t].userId

\* The rows a callback has read hold the write that registered it: the lot
\* of a purchase, the usage of a usage or batch usage, the spoilage of a
\* spoilage.
C25_IncludesWrite ==
    \A t \in Tasks :
       loop[t] # Idle =>
          /\ (loop[t].pc \in {"snapshotUsage", "snapshotSpoilage", "snapshotUpsert"}
                 /\ loop[t].message = "Error updating analytics after purchase:")
                => \E id \in DOMAIN loop[t].rows :
                      loop[t].rows[id].ingredientId \in loop[t].ingredientIds
          /\ (loop[t].pc \in {"snapshotSpoilage", "snapshotUpsert"}
                 /\ loop[t].message \in {"Error updating analytics after usage:",
                                         "Error updating analytics after batch usage:"})
                => \A i \in loop[t].ingredientIds :
                      \E id \in DOMAIN loop[t].usageMap :
                         /\ loop[t].rows[id].ingredientId = i
                         /\ loop[t].usageMap[id] > 0
          /\ (loop[t].pc = "snapshotUpsert"
                 /\ loop[t].message = "Error updating analytics after spoilage:")
                => \E id \in DOMAIN loop[t].spoilageMap :
                      /\ loop[t].rows[id].ingredientId \in loop[t].ingredientIds
                      /\ loop[t].spoilageMap[id] > 0

\* The callback in place t ends with its last recomputation written.
C25_Recomputed(t) ==
    \/ /\ loop[t].pc = "snapshotUpsert"
       /\ loop[t].ingredientIds = {}
       /\ \E r \in dailyInventorySnapshots' :
             r.userId = loop[t].userId /\ r.snapshotDate = loop[t].today
    \/ /\ loop[t].pc = "analyticsUpsert"
       /\ loop[t].ingredientIds = {loop[t].ingredientId}
       /\ \E r \in ingredientAnalytics' :
             r.userId = loop[t].userId /\ r.ingredientId = loop[t].ingredientId

\* The snapshot is written before the analytics of the first ingredient are
\* read, and the analytics of an ingredient before the callback leaves it.
C25_InOrder ==
    \A t \in Tasks :
       /\ (loop[t] # Idle /\ loop'[t] # Idle
              /\ loop[t].pc # "updateIngredientAnalytics"
              /\ loop'[t].pc = "updateIngredientAnalytics")
             => \/ /\ loop[t].pc = "snapshotUpsert"
                   /\ \E r \in dailyInventorySnapshots' :
                         /\ r.userId = loop[t].userId
                         /\ r.snapshotDate = loop[t].today
                \/ /\ loop[t].pc = "analyticsUpsert"
                   /\ \E r \in ingredientAnalytics' :
                         /\ r.userId = loop[t].userId
                         /\ r.ingredientId = loop[t].ingredientId
                   /\ loop'[t].ingredientIds
                         = loop[t].ingredientIds \ {loop[t].ingredientId}

\* A callback ends with its last recomputation written.
C25_EndsRecomputed ==
    \A t \in Tasks :
       (loop[t] # Idle /\ loop'[t] = Idle) => C25_Recomputed(t)

\* A callback ends with its last recomputation written or with its failure
\* printed.
C25_EndsRecomputedOrLogged ==
    \A t \in Tasks :
       (loop[t] # Idle /\ loop'[t] = Idle)
          => \/ C25_Recomputed(t)
             \/ loop[t].message \in console' /\ loop[t].message \in C15_Messages

\* Every callback the event loop holds ends.
C25_Ends == \A t \in Tasks : (loop[t] # Idle) ~> (loop[t] = Idle)

\* C25: every successful recordPurchase, recordUsage, recordSpoilage and
\* batchRecordUsage is eventually followed by a recomputation of the tenant's
\* daily snapshot and of the affected ingredient's analytics, and that
\* recomputation starts only after the ledger write has committed, so the
\* aggregates it computes include the triggering write.
C25_WriteLeadsToRecomputation ==
    /\ []C25_IncludesWrite
    /\ [][C25_Triggered /\ C25_ReadsCommitted /\ C25_InOrder
             /\ C25_EndsRecomputed]_vars
    /\ C25_Ends

\* The same, a callback ending with its recomputations written or with the
\* failure of one of its queries printed.
C25_WriteLeadsToRecomputationOrLog ==
    /\ []C25_IncludesWrite
    /\ [][C25_Triggered /\ C25_ReadsCommitted /\ C25_InOrder
             /\ C25_EndsRecomputedOrLogged]_vars
    /\ C25_Ends

\* The callback of a usage has written a snapshot that counts the usage,
\* has read the usage again for the analytics of the lot's ingredient and is
\* about to write them; nothing has failed.
C25_Witness ==
    \E t \in Tasks :
       /\ loop[t] # Idle
       /\ loop[t].message = "Error updating analytics after usage:"
       /\ loop[t].pc = "analyticsUpsert"
       /\ \E id \in DOMAIN loop[t].usageMap : loop[t].usageMap[id] > 0
       /\ \E r \in dailyInventorySnapshots :
             r.userId = loop[t].userId /\ r.remainingValue < r.totalValue
       /\ console = {}

\* ---------------------------------------------------------------- C26
\* The ingredients of a callback whose recomputation has not begun.
C26_NotAttempted(t) == loop[t].ingredientIds \ {loop[t].ingredientId}

\* The callback of a batch usage names the distinct ingredients of the lots
\* that received a usage row.
C26_OnePerIngredient ==
    \A t \in Tasks :
       (loop[t] = Idle /\ loop'[t] # Idle
           /\ loop'[t].message = "Error updating analytics after batch usage:")
          => loop'[t].ingredientIds
                = {stock[r.ingredientStockId].ingredientId :
                      r \in {x \in BagToSet(usage') :
                                CopiesIn(x, usage') > CopiesIn(x, usage)}}

\* The callback of a batch usage ends only when the recomputation of each of
\* its ingredients has begun.
C26_EndsAllAttempted ==
    \A t \in Tasks :
       (loop[t] # Idle /\ loop'[t] = Idle
           /\ loop[t].message = "Error updating analytics after batch usage:")
          => C26_NotAttempted(t) = {}

\* The same while nothing fails: a callback that ends with an ingredient not
\* begun ends in its catch clause.
C26_EndsAllAttemptedOrLogged ==
    \A t \in Tasks :
       (loop[t] # Idle /\ loop'[t] = Idle
           /\ loop[t].message = "Error updating analytics after batch usage:")
          => \/ C26_NotAttempted(t) = {}
             \/ loop[t].message \in console'

\* C26: after a batch usage write, an analytics recomputation is triggered
\* for each distinct ingredient whose lot received a usage event, each
\* independently of the others: the recomputation of one ingredient's
\* analytics is attempted even when the snapshot recomputation or another
\* ingredient's recomputation fails.
C26_IndependentRecomputations ==
    [][C26_OnePerIngredient /\ C26_EndsAllAttempted]_vars

\* One recomputation after the other, each begun unless an earlier one failed.
C26_SequentialRecomputations ==
    [][C26_OnePerIngredient /\ C26_EndsAllAttemptedOrLogged]_vars

\* ---------------------------------------------------------------- C27
\* The ingredients of the recipe of a completion and their declared
\* quantities.
C27_Declared(c) ==
    {ri \in Range(recipeIngredients) : ri.recipeId = c.recipeId}

\* The quantity the request's actualQuantities gives an ingredient: that of
\* its last entry for it.
C27_Supplied(c, ingredientId) ==
    LET items == c.options.actualQuantities.items
        last == CHOOSE i \in 1..Len(items) :
                   /\ items[i].ingredientId = ingredientId
                   /\ \A j \in 1..Len(items) :
                         items[j].ingredientId = ingredientId => j <= i
    IN  items[last].quantity

C27_IsSupplied(c, ingredientId) ==
    /\ c.options.actualQuantities.given
    /\ \E i \in 1..Len(c.options.actualQuantities.items) :
          c.options.actualQuantities.items[i].ingredientId = ingredientId

\* Entry by entry: the supplied quantity for an ingredient that has one, the
\* declared quantity for an ingredient that has none.
C27_PerIngredient(c, ri) ==
    IF C27_IsSupplied(c, ri.ingredientId)
    THEN C27_Supplied(c, ri.ingredientId)
    ELSE ri.quantity

\* As a whole: with actualQuantities given, the supplied quantity for an
\* ingredient it names and nothing for one it does not name; the declared
\* quantity when actualQuantities is not given.
C27_Whole(c, ri) ==
    IF c.options.actualQuantities.given
    THEN IF C27_IsSupplied(c, ri.ingredientId)
         THEN C27_Supplied(c, ri.ingredientId)
         ELSE 0
    ELSE ri.quantity

\* What completeRecipe plans for and reports of each recipe ingredient is
\* what the required quantity asks: the usage planned is the required
\* quantity as far as the stock goes, and what is missing is reported as a
\* shortage of the required quantity.
C27_PlansFor(required(_, _)) ==
    \A c \in CompletionInputs : \A order \in OrdersOf(c) :
       RecipeFound(c) =>
          \A ri \in C27_Declared(c) :
             LET r == ResultOf(c, order)
                 total == TotalRemaining(ri.ingredientId, c.userId)
                 planned == PlannedFor(r.usageOperations, ri.ingredientId)
                 reported == {x.requiredQuantity :
                                 x \in {y \in Range(r.shortages) :
                                           y.ingredientId = ri.ingredientId}}
             IN  /\ planned = Min(required(c, ri), total)
                 /\ reported = IF required(c, ri) > total
                               THEN {required(c, ri)}
                               ELSE {}

\* C27: in completeRecipe the required quantity of each recipe ingredient is
\* the caller's actualQuantities value when one is supplied for that
\* ingredient and the recipe's declared quantity otherwise.
C27_RequiredPerIngredient == C27_PlansFor(C27_PerIngredient)

\* C27 (as amended): the required quantities are those of actualQuantities
\* when the caller supplies it, a recipe ingredient it does not name being
\* required in no quantity, and the recipe's declared quantities otherwise.
C27_RequiredAsAWhole == C27_PlansFor(C27_Whole)

\* The tenant has stock of both ingredients of the recipe, and a completion
\* that supplies a quantity of one of them plans that quantity of it and
\* nothing of the other.
C27_Witness ==
    \E c \in CompletionInputs : \E order \in OrdersOf(c) :
       LET r == ResultOf(c, order)
       IN  /\ RecipeFound(c)
           /\ C27_IsSupplied(c, "flour")
           /\ ~C27_IsSupplied(c, "sugar")
           /\ TotalRemaining("flour", c.userId) >= C27_Supplied(c, "flour")
           /\ TotalRemaining("sugar", c.userId) > 0
           /\ PlannedFor(r.usageOperations, "flour") = C27_Supplied(c, "flour")
           /\ PlannedFor(r.usageOperations, "sugar") = 0
           /\ \E ri \in C27_Declared(c) : ri.ingredientId = "sugar"

\* ---------------------------------------------------------------- C28
\* The entries of actualQuantities that name an ingredient of the tenant.
C28_Owned(c) ==
    SelectSeq(c.options.actualQuantities.items,
              LAMBDA item : \E i \in ingredients :
                               i.id = item.ingredientId /\ i.userId = c.userId)

\* A completion of a recipe of the tenant with an entry that names an
\* ingredient the tenant has not.
C28_NamesUnknown(c) ==
    /\ RecipeFound(c)
    /\ c.options.actualQuantities.given
    /\ C28_Owned(c) # c.options.actualQuantities.items

\* C28: completeRecipe called with an actualQuantities entry whose ingredient
\* id does not exist or does not belong to the tenant surfaces a not-found
\* condition and writes no usage event.
C28_UnknownIngredientRefused ==
    \A c \in CompletionInputs : \A order \in OrdersOf(c) :
       C28_NamesUnknown(c) =>
          /\ ResultOf(c, order).status # "ok"
          /\ ResultOf(c, order).written = <<>>

\* Such an entry is passed over: the completion returns and writes what it
\* does without the entry.
C28_UnknownIngredientSkipped ==
    \A c \in CompletionInputs : \A order \in OrdersOf(c) :
       C28_NamesUnknown(c) =>
          ResultOf(c, order)
             = completeRecipeResult(c.recipeId, c.userId,
                                    [c.options EXCEPT !.actualQuantities.items =
                                                         C28_Owned(c)],
                                    order)

\* ---------------------------------------------------------------- C29
\* The lists of a menu plan of the tenant, one for each answer of the stock
\* query.
C29_Lists(plan) ==
    {generateShoppingList(plan.id, plan.userId, lastPurchase).list :
        lastPurchase \in LastPurchases(plan.userId)}

\* Sum of a function's fractions.
RECURSIVE C29_Sum(_)
C29_Sum(f) ==
    IF DOMAIN f = {} THEN Rat(0, 1)
    ELSE LET x == CHOOSE y \in DOMAIN f : TRUE
         IN  RatAdd(f[x], C29_Sum([y \in DOMAIN f \ {x} |-> f[y]]))

\* The sum over the items of the plan of baseQuantity * servings / serves.
C29_Total(plan, ingredientId) ==
    LET rows == {<<i, k>> \in (1..Len(menuItems)) \X (1..Len(recipeIngredients)) :
                    /\ menuItems[i].menuPlanId = plan.id
                    /\ recipeIngredients[k].recipeId = menuItems[i].recipeId
                    /\ recipeIngredients[k].ingredientId = ingredientId}
    IN  C29_Sum([x \in rows |->
                    Rat(recipeIngredients[x[2]].quantity * menuItems[x[1]].servings,
                        (CHOOSE r \in recipes : r.id = menuItems[x[1]].recipeId).serves)])

\* Every entry of every list carries the total of its ingredient, the given
\* stock of it as currentStock, and as needed what the total exceeds it by.
C29_List(stockOf(_, _)) ==
    \A plan \in menuPlans : \A list \in C29_Lists(plan) :
       \A ingredientId \in DOMAIN list :
          LET item == list[ingredientId]
              current == stockOf(ingredientId, plan.userId)
          IN  /\ item.totalQuantity = C29_Total(plan, ingredientId)
              /\ item.currentStock = current
              /\ item.needed =
                    IF item.totalQuantity[1] > current * item.totalQuantity[2]
                    THEN Rat(item.totalQuantity[1] - current * item.totalQuantity[2],
                             item.totalQuantity[2])
                    ELSE Rat(0, 1)

\* What the tenant purchased of an ingredient.
C29_Purchased(ingredientId, userId) ==
    SumFn([id \in LotsOf(ingredientId, userId) |-> stock[id].quantity])

\* What remains of it: purchased minus used minus spoiled, lot by lot.
C29_Remaining(ingredientId, userId) ==
    SumFn([id \in LotsOf(ingredientId, userId) |->
              stock[id].quantity - TotalUsed(id, userId) - TotalSpoiled(id, userId)])

\* C29: generateShoppingList reports for each ingredient a currentStock equal
\* to the ingredient's current remaining stock (purchased minus used minus
\* spoiled over the tenant's lots) and needed = max(0, totalQuantity -
\* currentStock), where totalQuantity is the sum over menu line-items of
\* baseQuantity * servings / serves.
C29_ListOfRemainingStock == C29_List(C29_Remaining)

\* The same with the purchased quantity for the current stock.
C29_ListOfPurchasedStock == C29_List(C29_Purchased)

\* ---------------------------------------------------------------- C30
\* The row a handler has sent is a row of the tenant of its request, or no
\* row.
C30_OwnRow(r) ==
    requests[r].pc = "responded" =>
       requests[r].data.userId \in {authenticate(r), ""}

\* C30: the analytics read endpoints (overview, best-suppliers,
\* category-distribution, per-ingredient analytics) return only cached
\* snapshot and ingredient-analytics rows that belong to the requesting
\* tenant.
C30_ReadsOwnRowsOnly == \A r \in Readers : C30_OwnRow(r)

\* The same while the cache tables hold rows of the requesting tenant only.
C30_ReadsOwnRowsWhenAlone ==
    \A r \in Readers :
       (\A row \in dailyInventorySnapshots \cup ingredientAnalytics :
           row.userId = authenticate(r))
          => C30_OwnRow(r)

====
